---- MODULE Spec2Model ----
(***************************************************************************)
(* GitAudit: the commit batcher, the change extractor, the two-pass        *)
(* analyzer, the statistics and the portfolio summary of src/src/auth.js   *)
(* (the analysis engine that source file carries from line 81 on), with    *)
(* the prompt and completion helpers of src/src/llm they call and the run  *)
(* of analyzeRepository (src/src/index.js) around them, the commit and      *)
(* analysis cache that run writes (cache.js), and the sign-in operations   *)
(* of src/src/auth.js over the store of src/src/storage.js.                *)
(*                                                                         *)
(* Strings are TLA+ strings (Len, SubSeq and \o work on them), an absent   *)
(* object property is an absent record field, and a JSON value whose type  *)
(* the code does not fix is tagged: [num |-> n] or [str |-> s].            *)
(***************************************************************************)
EXTENDS Integers, Sequences, FiniteSets, Bags, TLC

VARIABLES
    commits,          \* batchCommitsByFeature: the commits argument
    options,          \* batchCommitsByFeature: the options argument
    bpc,              \* batchCommitsByFeature: position ("ready", "loop", "returned")
    sortedCommits,    \* batchCommitsByFeature: the sorted copy
    walk,             \* batchCommitsByFeature: commits of sortedCommits already visited
    currentBatch,     \* batchCommitsByFeature: the open batch
    batches,          \* batchCommitsByFeature: the closed batches, then the result
    xpc,              \* extractEffectiveChanges: position
    xbatch,           \* extractEffectiveChanges: the batch argument
    xret,             \* extractEffectiveChanges: the value resolved, or the reason rejected
    aopts,            \* analyzeCommitBatches: the options argument
    apc,              \* analyzeCommitBatches: position
    i,                \* analyzeCommitBatches: the loop counter of the running pass
    analyses,         \* analyzeCommitBatches: the analyses, then the result
    importantBatches, \* analyzeCommitBatches: the escalated analyses (their indices in analyses)
    changes,          \* analyzeCommitBatches: the changes of the Pass-2 iteration
    spc,              \* generatePortfolioSummary: position
    sret,             \* generatePortfolioSummary: the value resolved, or the reason rejected
    inflight,         \* the remote call awaited (NoCall when none is)
    usageTracker,     \* llm/openrouter.js: the process-wide TokenUsageTracker
    served,           \* the usage of the completions the provider delivered since the run began
    rpc,              \* analyzeRepository: position
    rret,             \* analyzeRepository: what the run reports
    fpc,              \* a synchronous helper called on its own: position
    farg,             \* a synchronous helper called on its own: the argument
    fret,             \* a synchronous helper called on its own: the values returned, one per call
    cacheStore,       \* cache.js: the Conf store of the cache
    store,            \* storage.js: the Conf store of the token and the user
    authpc,           \* auth.js: position of the running authentication operation
    authret           \* auth.js: how the last authentication operation ended

batchVars == <<commits, options, bpc, sortedCommits, walk, currentBatch, batches>>
extractVars == <<xpc, xbatch, xret>>
analyzerVars == <<aopts, apc, i, analyses, importantBatches, changes>>
summaryVars == <<spc, sret>>
remoteVars == <<inflight, usageTracker>>
runVars == <<served, rpc, rret>>
callVars == <<fpc, farg, fret>>
cacheVars == <<cacheStore>>
authVars == <<store, authpc, authret>>
storageVars == <<cacheVars, authVars>>

vars == <<batchVars, extractVars, analyzerVars, summaryVars, remoteVars, runVars, callVars,
          storageVars>>

-----------------------------------------------------------------------------
(* Bounds of the model *)

\* longest commit list handed to batchCommitsByFeature
MaxCommits == 3
\* largest options.timeWindowHours tried (0 .. MaxWindowOption, and absent)
MaxWindowOption == 1
\* largest options.maxBatchSize tried (-1 .. MaxSizeOption, and absent)
MaxSizeOption == 2

\* authorship timestamps of the commits, in hours since the epoch
CommitHours == {0, 1, 6}

\* commit messages: a feature keyword only after the first line, a bugfix
\* first line, and a message no rule matches
CommitMessages == {"update\nadd tests", "Fix login bug", "wip stuff"}

-----------------------------------------------------------------------------
(* Program constants *)

DEFAULT_TIME_WINDOW_HOURS == 4
DEFAULT_MAX_BATCH_SIZE == 10
IMPORTANCE_THRESHOLD == 3
\* 60 * 60 * 1000, the factor of timeWindowMs
MsPerHour == 3600000

\* null of a Date-valued field, and of the category of the first open batch
NullDate == -1
NullCategory == "null"

-----------------------------------------------------------------------------
(* String.prototype helpers *)

StartsWith(s, p) == Len(s) >= Len(p) /\ SubSeq(s, 1, Len(p)) = p

Includes(s, p) ==
    \E k \in 1..(Len(s) - Len(p) + 1) : SubSeq(s, k, k + Len(p) - 1) = p

UpperChars == "ABCDEFGHIJKLMNOPQRSTUVWXYZ"
LowerChars == "abcdefghijklmnopqrstuvwxyz"

\* the lower-case letter of each upper-case letter
LowerOf == [c \in {SubSeq(UpperChars, k, k) : k \in 1..26} |->
               LET k == CHOOSE n \in 1..26 : SubSeq(UpperChars, n, n) = c
               IN SubSeq(LowerChars, k, k)]

LowerChar(c) == IF c \in DOMAIN LowerOf THEN LowerOf[c] ELSE c

RECURSIVE ToLowerCase(_)
ToLowerCase(s) ==
    IF Len(s) = 0 THEN s
    ELSE LowerChar(SubSeq(s, 1, 1)) \o ToLowerCase(SubSeq(s, 2, Len(s)))

\* s.split('\n')[0]: the text before the first line break
RECURSIVE FirstLine(_)
FirstLine(s) ==
    IF Len(s) = 0 \/ SubSeq(s, 1, 1) = "\n" THEN ""
    ELSE SubSeq(s, 1, 1) \o FirstLine(SubSeq(s, 2, Len(s)))

-----------------------------------------------------------------------------
(* detectCategory *)

\* mutant: the bugfix rule is tried before the feature rule
detectCategory_BugfixFirst(message) ==
    LET lower == ToLowerCase(message) IN
    IF StartsWith(lower, "fix") \/ Includes(lower, "bug")
       \/ Includes(lower, "patch") \/ Includes(lower, "hotfix")
    THEN "bugfix"
    ELSE IF StartsWith(lower, "feat") \/ Includes(lower, "add ")
       \/ Includes(lower, "implement") \/ Includes(lower, "new ")
    THEN "feature"
    ELSE IF StartsWith(lower, "refactor") \/ Includes(lower, "refactor")
       \/ Includes(lower, "restructure")
    THEN "refactor"
    ELSE IF StartsWith(lower, "doc") \/ Includes(lower, "readme")
       \/ Includes(lower, "comment")
    THEN "docs"
    ELSE IF StartsWith(lower, "test") \/ Includes(lower, "test")
       \/ Includes(lower, "spec")
    THEN "test"
    ELSE IF StartsWith(lower, "chore") \/ StartsWith(lower, "build")
       \/ Includes(lower, "deps") \/ Includes(lower, "ci")
    THEN "chore"
    ELSE IF StartsWith(lower, "style") \/ Includes(lower, "format")
       \/ Includes(lower, "lint")
    THEN "style"
    ELSE IF StartsWith(lower, "perf") \/ Includes(lower, "optim")
       \/ Includes(lower, "performance")
    THEN "performance"
    ELSE "other"

detectCategory(message) ==
    LET lower == ToLowerCase(message) IN
    IF StartsWith(lower, "feat") \/ Includes(lower, "add ")
       \/ Includes(lower, "implement") \/ Includes(lower, "new ")
    THEN "feature"
    ELSE IF StartsWith(lower, "fix") \/ Includes(lower, "bug")
       \/ Includes(lower, "patch") \/ Includes(lower, "hotfix")
    THEN "bugfix"
    ELSE IF StartsWith(lower, "refactor") \/ Includes(lower, "refactor")
       \/ Includes(lower, "restructure")
    THEN "refactor"
    ELSE IF StartsWith(lower, "doc") \/ Includes(lower, "readme")
       \/ Includes(lower, "comment")
    THEN "docs"
    ELSE IF StartsWith(lower, "test") \/ Includes(lower, "test")
       \/ Includes(lower, "spec")
    THEN "test"
    ELSE IF StartsWith(lower, "chore") \/ StartsWith(lower, "build")
       \/ Includes(lower, "deps") \/ Includes(lower, "ci")
    THEN "chore"
    ELSE IF StartsWith(lower, "style") \/ Includes(lower, "format")
       \/ Includes(lower, "lint")
    THEN "style"
    ELSE IF StartsWith(lower, "perf") \/ Includes(lower, "optim")
       \/ Includes(lower, "performance")
    THEN "performance"
    ELSE "other"

-----------------------------------------------------------------------------
(* batchCommitsByFeature *)

\* new Date(commit.commit.author.date): milliseconds since the epoch
ParseDate(date) == date * MsPerHour

\* (options.timeWindowHours || DEFAULT_TIME_WINDOW_HOURS) * 60 * 60 * 1000
TimeWindowMs(opts) ==
    (IF "timeWindowHours" \in DOMAIN opts /\ opts.timeWindowHours # 0
     THEN opts.timeWindowHours
     ELSE DEFAULT_TIME_WINDOW_HOURS) * MsPerHour

\* options.maxBatchSize || DEFAULT_MAX_BATCH_SIZE
MaxBatchSizeOf(opts) ==
    IF "maxBatchSize" \in DOMAIN opts /\ opts.maxBatchSize # 0
    THEN opts.maxBatchSize
    ELSE DEFAULT_MAX_BATCH_SIZE

\* Array.prototype.sort is stable: with the comparator dateB - dateA a commit
\* goes behind every commit that is at least as new
RECURSIVE InsertByDate(_, _)
InsertByDate(c, sorted) ==
    IF sorted = <<>> THEN <<c>>
    ELSE IF ParseDate(Head(sorted).date) - ParseDate(c.date) >= 0
         THEN <<Head(sorted)>> \o InsertByDate(c, Tail(sorted))
         ELSE <<c>> \o sorted

RECURSIVE SortPrefix(_, _)
SortPrefix(cs, k) ==
    IF k = 0 THEN <<>> ELSE InsertByDate(cs[k], SortPrefix(cs, k - 1))

\* mutant: the commits are walked in the order they were passed in
SortNewestFirst_KeepsOrder(cs) == cs

SortNewestFirst(cs) == SortPrefix(cs, Len(cs))

\* the batch the walk starts with
EmptyBatch ==
    [commits |-> <<>>, startDate |-> NullDate, endDate |-> NullDate,
     files |-> <<>>, category |-> NullCategory]

\* mutant: the gap is taken the wrong way round, so it is never positive
ShouldStartNewBatch_GapReversed(cb, commitDate, maxBatchSize, timeWindowMs) ==
    \/ Len(cb.commits) = 0
    \/ Len(cb.commits) >= maxBatchSize
    \/ (cb.startDate # NullDate /\ (commitDate - cb.startDate) > timeWindowMs)

\* mutant: a commit exactly the window older than the newest one starts a batch
ShouldStartNewBatch_AtWindow(cb, commitDate, maxBatchSize, timeWindowMs) ==
    \/ Len(cb.commits) = 0
    \/ Len(cb.commits) >= maxBatchSize
    \/ (cb.startDate # NullDate /\ (cb.startDate - commitDate) >= timeWindowMs)

ShouldStartNewBatch(cb, commitDate, maxBatchSize, timeWindowMs) ==
    \/ Len(cb.commits) = 0
    \/ Len(cb.commits) >= maxBatchSize
    \/ (cb.startDate # NullDate /\ (cb.startDate - commitDate) > timeWindowMs)

\* the batches after the open batch is saved (if not empty); the file set of a
\* batch is never filled, so Array.from gives the empty list
PushIfNotEmpty(bs, cb) ==
    IF Len(cb.commits) > 0 THEN Append(bs, [cb EXCEPT !.files = <<>>]) ELSE bs

StartNewBatch(commit) ==
    [commits |-> <<commit>>,
     startDate |-> ParseDate(commit.date),
     endDate |-> ParseDate(commit.date),
     files |-> <<>>,
     category |-> detectCategory(commit.message)]

\* mutant: a commit is added without moving the end of the batch
AddToBatch_KeepsEndDate(cb, commit) ==
    LET newCategory == detectCategory(commit.message) IN
    [cb EXCEPT !.commits = Append(cb.commits, commit),
               !.category = IF newCategory # "other" /\ cb.category = "other"
                            THEN newCategory ELSE @]

\* mutant: every specific category replaces the one the batch has
AddToBatch_LastSpecificWins(cb, commit) ==
    LET newCategory == detectCategory(commit.message) IN
    [cb EXCEPT !.commits = Append(cb.commits, commit),
               !.endDate = ParseDate(commit.date),
               !.category = IF newCategory # "other" THEN newCategory ELSE @]

AddToBatch(cb, commit) ==
    LET newCategory == detectCategory(commit.message) IN
    [cb EXCEPT !.commits = Append(cb.commits, commit),
               !.endDate = ParseDate(commit.date),
               !.category = IF newCategory # "other" /\ cb.category = "other"
                            THEN newCategory ELSE @]

\* mutant: a new batch is opened without saving the one it replaces
LoopBody_DropsOpenBatch(st, commit, opts) ==
    IF ShouldStartNewBatch(st.cb, ParseDate(commit.date),
                           MaxBatchSizeOf(opts), TimeWindowMs(opts))
    THEN [cb |-> StartNewBatch(commit), bs |-> st.bs]
    ELSE [cb |-> AddToBatch(st.cb, commit), bs |-> st.bs]

\* one iteration of the for loop, on [cb, bs]: the open batch and the closed ones
LoopBody(st, commit, opts) ==
    IF ShouldStartNewBatch(st.cb, ParseDate(commit.date),
                           MaxBatchSizeOf(opts), TimeWindowMs(opts))
    THEN [cb |-> StartNewBatch(commit), bs |-> PushIfNotEmpty(st.bs, st.cb)]
    ELSE [cb |-> AddToBatch(st.cb, commit), bs |-> st.bs]

RECURSIVE LoopPrefix(_, _, _)
LoopPrefix(sorted, k, opts) ==
    IF k = 0 THEN [cb |-> EmptyBatch, bs |-> <<>>]
    ELSE LoopBody(LoopPrefix(sorted, k - 1, opts), sorted[k], opts)

\* the function as a whole
batchCommitsByFeature(cs, opts) ==
    IF Len(cs) = 0 THEN <<>>
    ELSE LET sorted == SortNewestFirst(cs)
             st == LoopPrefix(sorted, Len(sorted), opts)
         IN PushIfNotEmpty(st.bs, st.cb)

-----------------------------------------------------------------------------
(* Inputs of batchCommitsByFeature *)

Sha(k) == "sha" \o ToString(k)

\* commit lists: the k-th commit of a list has the sha Sha(k)
CommitListsOver(hours, messages, maxLen) ==
    UNION { { [k \in 1..n |-> [sha |-> Sha(k), date |-> f[k][1], message |-> f[k][2]]] :
              f \in [1..n -> hours \X messages] } : n \in 0..maxLen }

CommitLists(maxLen) == CommitListsOver(CommitHours, CommitMessages, maxLen)

\* an options object without properties
NoOptions == [x \in {} |-> 0]

\* the options tried: each property absent or set, maxBatchSize also zero and negative
BatchOptions ==
    { w @@ s : w \in {NoOptions} \cup {[timeWindowHours |-> h] : h \in 0..MaxWindowOption},
               s \in {NoOptions} \cup {[maxBatchSize |-> n] : n \in -1..MaxSizeOption} }

-----------------------------------------------------------------------------
(* Remote calls and the usage tracker *)

NoCall == [call |-> "none"]

\* new TokenUsageTracker()
NewTracker == [totalInputTokens |-> 0, totalOutputTokens |-> 0, calls |-> <<>>]

\* no remote call is awaited and nothing was tracked
RemoteIdle ==
    /\ inflight = NoCall
    /\ usageTracker = NewTracker

\* extractEffectiveChanges is not running
ExtractIdle ==
    /\ xpc = "idle"
    /\ xbatch = EmptyBatch
    /\ xret = [type |-> "none"]

\* analyzeCommitBatches and generatePortfolioSummary are not running
AnalyzerIdle ==
    /\ aopts = NoOptions
    /\ apc = "idle"
    /\ i = 0
    /\ analyses = <<>>
    /\ importantBatches = <<>>
    /\ changes = [type |-> "none"]
    /\ spc = "idle"
    /\ sret = [type |-> "none"]

\* no run of analyzeRepository is going on
RunIdle ==
    /\ served = <<>>
    /\ rpc = "idle"
    /\ rret = [type |-> "none"]

\* no helper is called on its own
CallIdle ==
    /\ fpc = "idle"
    /\ farg = <<>>
    /\ fret = <<>>

\* the cache store as Conf creates it: no entry under any of its keys
EmptyCache ==
    [commits |-> NoOptions, analysis |-> NoOptions,
     analyzedRepos |-> NoOptions, repoAnalysis |-> NoOptions]

\* the store of storage.js as Conf creates it: neither githubToken nor githubUser
EmptyStore == NoOptions

\* nothing is cached, nobody is logged in and no authentication operation runs
StorageIdle ==
    /\ cacheStore = EmptyCache
    /\ store = EmptyStore
    /\ authpc = "idle"
    /\ authret = [type |-> "none"]

-----------------------------------------------------------------------------
(* The batcher, one loop iteration per step *)

InitBatch ==
    /\ commits \in CommitLists(MaxCommits)
    /\ options \in BatchOptions
    /\ bpc = "ready"
    /\ sortedCommits = <<>>
    /\ walk = 0
    /\ currentBatch = EmptyBatch
    /\ batches = <<>>
    /\ ExtractIdle
    /\ AnalyzerIdle
    /\ RemoteIdle
    /\ RunIdle
    /\ CallIdle
    /\ StorageIdle

\* if (commits.length === 0) return []
BatchEmptyInput ==
    /\ bpc = "ready"
    /\ Len(commits) = 0
    /\ bpc' = "returned"
    /\ batches' = <<>>
    /\ UNCHANGED <<commits, options, sortedCommits, walk, currentBatch>>
    /\ UNCHANGED <<extractVars, analyzerVars, summaryVars, remoteVars>>
    /\ UNCHANGED <<runVars, callVars, storageVars>>

\* const sortedCommits = [...commits].sort(...)
BatchSort ==
    /\ bpc = "ready"
    /\ Len(commits) > 0
    /\ sortedCommits' = SortNewestFirst(commits)
    /\ bpc' = "loop"
    /\ UNCHANGED <<commits, options, walk, currentBatch, batches>>
    /\ UNCHANGED <<extractVars, analyzerVars, summaryVars, remoteVars>>
    /\ UNCHANGED <<runVars, callVars, storageVars>>

\* one iteration of for (const commit of sortedCommits)
BatchWalk ==
    /\ bpc = "loop"
    /\ walk < Len(sortedCommits)
    /\ LET st == LoopBody([cb |-> currentBatch, bs |-> batches],
                          sortedCommits[walk + 1], options)
       IN /\ currentBatch' = st.cb
          /\ batches' = st.bs
    /\ walk' = walk + 1
    /\ UNCHANGED <<commits, options, bpc, sortedCommits>>
    /\ UNCHANGED <<extractVars, analyzerVars, summaryVars, remoteVars>>
    /\ UNCHANGED <<runVars, callVars, storageVars>>

\* the last batch is pushed and the batches are returned
BatchReturn ==
    /\ bpc = "loop"
    /\ walk = Len(sortedCommits)
    /\ batches' = PushIfNotEmpty(batches, currentBatch)
    /\ bpc' = "returned"
    /\ UNCHANGED <<commits, options, sortedCommits, walk, currentBatch>>
    /\ UNCHANGED <<extractVars, analyzerVars, summaryVars, remoteVars>>
    /\ UNCHANGED <<runVars, callVars, storageVars>>

NextBatch == BatchEmptyInput \/ BatchSort \/ BatchWalk \/ BatchReturn

SpecBatch == InitBatch /\ [][NextBatch]_vars

-----------------------------------------------------------------------------
(* The completion provider (generateText of the AI SDK) *)

\* a JSON value of a type the code does not fix
JsNum(n) == [num |-> n]
JsStr(str) == [str |-> str]

\* the token usage a completion reports
CompletionUsage == [promptTokens |-> 7, completionTokens |-> 3]

\* the classification replies: a text that holds a JSON object (json: the object
\* JSON.parse gives) or holds none (raw: the text)
ClassificationTexts ==
    { [json |-> [category |-> "feature", description |-> "Built the API",
                 importance |-> JsNum(3)]],
      [json |-> [description |-> "Small tweaks"]],
      [json |-> [category |-> "infra", description |-> "Reworked CI",
                 importance |-> JsNum(7)]],
      [json |-> [category |-> "docs", description |-> "Wrote docs",
                 importance |-> JsStr("high")]],
      [raw |-> "Sorry, I cannot help with that."] }

\* the replies to the detailed-analysis prompt: a text, and a completion
\* without text
ProseTexts == {"Implemented X using Y.", ""}

\* the replies to the summary prompt
SummaryTexts == {"Built and documented the API."}

\* what generateText resolves to, by model mode
CompletionsFor(mode) ==
    { [text |-> t, usage |-> CompletionUsage] :
        t \in IF mode = "VERY_FAST" THEN ClassificationTexts
              ELSE IF mode = "HIGH_REASONING" THEN ProseTexts
              ELSE SummaryTexts }

\* the reasons generateText fails with
CompletionErrors == {"fetch failed"}

-----------------------------------------------------------------------------
(* fetch.js: the commit detail and comparison providers *)

\* the file lists the provider answers with
ProviderFiles ==
    { <<>>,
      <<[filename |-> "a.js", status |-> "modified", additions |-> 2, deletions |-> 1]>> }

\* the reasons a provider call fails with
ProviderErrors == {"Not Found"}

\* a remote call that was issued and has not settled
Pending(request) == ("status" :> "pending") @@ request

\* what the provider can answer the awaited call with
PayloadsFor(request) ==
    IF request.call \in {"getCommit", "compareCommits"} THEN ProviderFiles
    ELSE CompletionsFor(request.mode)

\* the reasons the awaited call can fail with
ErrorsFor(request) ==
    IF request.call \in {"getCommit", "compareCommits"} THEN ProviderErrors
    ELSE CompletionErrors

\* the awaited remote call succeeds
ProviderResolve ==
    /\ inflight # NoCall
    /\ inflight.status = "pending"
    /\ \E v \in PayloadsFor(inflight) :
           /\ inflight' = ("status" :> "fulfilled") @@ ("value" :> v) @@ inflight
           /\ served' = IF inflight.call = "generateText"
                        THEN Append(served, v.usage) ELSE served
    /\ UNCHANGED <<batchVars, extractVars, analyzerVars, summaryVars, usageTracker>>
    /\ UNCHANGED <<rpc, rret, callVars, storageVars>>

\* the awaited remote call fails
ProviderReject ==
    /\ inflight # NoCall
    /\ inflight.status = "pending"
    /\ \E r \in ErrorsFor(inflight) :
           inflight' = ("status" :> "rejected") @@ ("reason" :> r) @@ inflight
    /\ UNCHANGED <<batchVars, extractVars, analyzerVars, summaryVars, usageTracker>>
    /\ UNCHANGED <<runVars, callVars, storageVars>>

RECURSIVE SumOver(_, _)
SumOver(files, field) ==
    IF files = <<>> THEN 0 ELSE Head(files)[field] + SumOver(Tail(files), field)

\* what fetchCommitDetails resolves to for the commit c and the provider's files
CommitDetails(c, files) ==
    [sha |-> c.sha, message |-> c.message, date |-> c.date,
     stats |-> [additions |-> SumOver(files, "additions"),
                deletions |-> SumOver(files, "deletions"),
                total |-> SumOver(files, "additions") + SumOver(files, "deletions")],
     files |-> files]

\* what fetchCommitComparison resolves to for n commits and the provider's files
CommitComparison(n, files) ==
    [ahead_by |-> n - 1, behind_by |-> 0, total_commits |-> n - 1,
     files |-> files,
     stats |-> [additions |-> SumOver(files, "additions"),
                deletions |-> SumOver(files, "deletions")]]

-----------------------------------------------------------------------------
(* extractEffectiveChanges *)

SingleChanges(details) ==
    [type |-> "single", commit |-> details,
     files |-> details.files, stats |-> details.stats]

\* mutant: the range records the commits the comparison is ahead by
RangeChanges_CountsAhead(cs, comparison) ==
    [type |-> "range",
     startSha |-> cs[Len(cs)].sha,
     endSha |-> cs[1].sha,
     commitCount |-> comparison.total_commits,
     files |-> comparison.files,
     stats |-> comparison.stats]

RangeChanges(cs, comparison) ==
    [type |-> "range",
     startSha |-> cs[Len(cs)].sha,
     endSha |-> cs[1].sha,
     commitCount |-> Len(cs),
     files |-> comparison.files,
     stats |-> comparison.stats]

\* mutant: the newest commit is left out of the fallback
MessagesOnlyChanges_SkipsNewest(cs) ==
    [type |-> "messages_only",
     commits |-> [k \in 1..(Len(cs) - 1) |->
                     [sha |-> cs[k + 1].sha, message |-> cs[k + 1].message,
                      date |-> cs[k + 1].date]]]

MessagesOnlyChanges(cs) ==
    [type |-> "messages_only",
     commits |-> [k \in 1..Len(cs) |->
                     [sha |-> cs[k].sha, message |-> cs[k].message, date |-> cs[k].date]]]

\* the null a call on a batch without commits resolves to
NullChanges == [type |-> "null"]

\* if (commits.length === 0) return null
ExtractNoCommits ==
    /\ xpc = "called"
    /\ Len(xbatch.commits) = 0
    /\ xpc' = "resolved"
    /\ xret' = NullChanges
    /\ UNCHANGED <<xbatch, batchVars, analyzerVars, summaryVars, remoteVars>>
    /\ UNCHANGED <<runVars, callVars, storageVars>>

\* one commit: await fetchCommitDetails(owner, repo, commits[0].sha)
ExtractCallDetails ==
    /\ xpc = "called"
    /\ Len(xbatch.commits) = 1
    /\ inflight = NoCall
    /\ inflight' = Pending([call |-> "getCommit", ref |-> xbatch.commits[1].sha])
    /\ xpc' = "awaitDetails"
    /\ UNCHANGED <<xbatch, xret, batchVars, analyzerVars, summaryVars, usageTracker>>
    /\ UNCHANGED <<runVars, callVars, storageVars>>

\* the commit detail has arrived: the single variant is returned
ExtractDetailsResolve ==
    /\ xpc = "awaitDetails"
    /\ inflight.status = "fulfilled"
    /\ xret' = SingleChanges(CommitDetails(xbatch.commits[1], inflight.value))
    /\ xpc' = "resolved"
    /\ inflight' = NoCall
    /\ UNCHANGED <<xbatch, batchVars, analyzerVars, summaryVars, usageTracker>>
    /\ UNCHANGED <<runVars, callVars, storageVars>>

\* the commit detail call has failed: nothing catches it, the call rejects
ExtractDetailsReject ==
    /\ xpc = "awaitDetails"
    /\ inflight.status = "rejected"
    /\ xret' = [type |-> "error", message |-> inflight.reason]
    /\ xpc' = "rejected"
    /\ inflight' = NoCall
    /\ UNCHANGED <<xbatch, batchVars, analyzerVars, summaryVars, usageTracker>>
    /\ UNCHANGED <<runVars, callVars, storageVars>>

\* several commits: await fetchCommitComparison(owner, repo, oldestSha, newestSha)
ExtractCallComparison ==
    /\ xpc = "called"
    /\ Len(xbatch.commits) > 1
    /\ inflight = NoCall
    /\ inflight' = Pending([call |-> "compareCommits",
                            base |-> xbatch.commits[Len(xbatch.commits)].sha,
                            head |-> xbatch.commits[1].sha])
    /\ xpc' = "awaitComparison"
    /\ UNCHANGED <<xbatch, xret, batchVars, analyzerVars, summaryVars, usageTracker>>
    /\ UNCHANGED <<runVars, callVars, storageVars>>

\* the comparison has arrived: the range variant is returned
ExtractComparisonResolve ==
    /\ xpc = "awaitComparison"
    /\ inflight.status = "fulfilled"
    /\ xret' = RangeChanges(xbatch.commits,
                            CommitComparison(Len(xbatch.commits), inflight.value))
    /\ xpc' = "resolved"
    /\ inflight' = NoCall
    /\ UNCHANGED <<xbatch, batchVars, analyzerVars, summaryVars, usageTracker>>
    /\ UNCHANGED <<runVars, callVars, storageVars>>

\* the comparison has failed: the catch returns the messages_only variant
ExtractComparisonReject ==
    /\ xpc = "awaitComparison"
    /\ inflight.status = "rejected"
    /\ xret' = MessagesOnlyChanges(xbatch.commits)
    /\ xpc' = "resolved"
    /\ inflight' = NoCall
    /\ UNCHANGED <<xbatch, batchVars, analyzerVars, summaryVars, usageTracker>>
    /\ UNCHANGED <<runVars, callVars, storageVars>>

\* the steps of extractEffectiveChanges on a batch with commits
ExtractStep ==
    \/ ExtractCallDetails
    \/ ExtractDetailsResolve
    \/ ExtractDetailsReject
    \/ ExtractCallComparison
    \/ ExtractComparisonResolve
    \/ ExtractComparisonReject

\* the batches extractEffectiveChanges is called with: every batch the batcher
\* returns for a commit list, and a batch without commits
ExtractBatches ==
    {EmptyBatch} \cup
    UNION { {bs[k] : k \in 1..Len(bs)} :
            bs \in {batchCommitsByFeature(cs, NoOptions) : cs \in CommitLists(MaxCommits)} }

InitExtract ==
    /\ commits = <<>>
    /\ options = NoOptions
    /\ bpc = "ready"
    /\ sortedCommits = <<>>
    /\ walk = 0
    /\ currentBatch = EmptyBatch
    /\ batches = <<>>
    /\ xpc = "called"
    /\ xbatch \in ExtractBatches
    /\ xret = [type |-> "none"]
    /\ AnalyzerIdle
    /\ RemoteIdle
    /\ RunIdle
    /\ CallIdle
    /\ StorageIdle

NextExtract == ExtractNoCommits \/ ExtractStep \/ ProviderResolve \/ ProviderReject

SpecExtract == InitExtract /\ [][NextExtract]_vars

-----------------------------------------------------------------------------
(* llm/openrouter.js: generate, generateJSON and the usage tracker *)

\* TokenUsageTracker.track(operation, usage)
Track(tracker, operation, usage) ==
    LET entry == [operation |-> operation,
                  inputTokens |-> usage.promptTokens,
                  outputTokens |-> usage.completionTokens]
    IN [totalInputTokens |-> tracker.totalInputTokens + entry.inputTokens,
        totalOutputTokens |-> tracker.totalOutputTokens + entry.outputTokens,
        calls |-> Append(tracker.calls, entry)]

\* TokenUsageTracker.getTotal()
GetTotal(tracker) ==
    [inputTokens |-> tracker.totalInputTokens,
     outputTokens |-> tracker.totalOutputTokens,
     totalTokens |-> tracker.totalInputTokens + tracker.totalOutputTokens,
     callCount |-> Len(tracker.calls)]

\* generate(prompt, mode): the request it awaits
GenerateCall(prompt, mode) ==
    Pending([call |-> "generateText", mode |-> mode, prompt |-> prompt])

\* the tracker once the awaited generate call has settled: a completion that
\* arrived is tracked, a failed request is not
TrackerAfter(call, tracker) ==
    IF call.status = "fulfilled"
    THEN Track(tracker, "generate:" \o call.mode, call.value.usage)
    ELSE tracker

\* what a fulfilled generate call returns
GenerateResult(call) ==
    [text |-> call.value.text,
     usage |-> [inputTokens |-> call.value.usage.promptTokens,
                outputTokens |-> call.value.usage.completionTokens]]

\* how generateJSON settles once its generate call has: fulfilled with the
\* parsed object, or rejected with the reason of the request or of the parse
GenerateJSONOutcome(call) ==
    IF call.status = "rejected"
    THEN [ok |-> FALSE, message |-> call.reason]
    ELSE IF "json" \in DOMAIN call.value.text
    THEN [ok |-> TRUE, data |-> call.value.text.json, usage |-> GenerateResult(call).usage]
    ELSE [ok |-> FALSE,
          message |-> "Failed to parse JSON response: No valid JSON found in response"
                      \o "\nRaw response: " \o call.value.text.raw]

-----------------------------------------------------------------------------
(* llm/prompts.js: the prompts, as the data they are built from *)

Min(a, b) == IF a < b THEN a ELSE b

\* s.slice(0, n)
Slice(s, n) == SubSeq(s, 1, Min(n, Len(s)))

formatCommit(commit) ==
    [sha |-> Slice(commit.sha, 7), message |-> FirstLine(commit.message),
     date |-> commit.date]

batchCategorizationPrompt(batch) ==
    [template |-> "categorize",
     total |-> Len(batch.commits),
     commits |-> [k \in 1..Len(batch.commits) |-> formatCommit(batch.commits[k])]]

detailedAnalysisPrompt(batch, chg) ==
    [template |-> "detailed",
     commits |-> [k \in 1..Len(batch.commits) |-> formatCommit(batch.commits[k])],
     files |-> IF "files" \in DOMAIN chg THEN Slice(chg.files, 10) ELSE <<>>]

RECURSIVE TotalCommits(_)
TotalCommits(as) ==
    IF as = <<>> THEN 0 ELSE Len(Head(as).batch.commits) + TotalCommits(Tail(as))

portfolioSummaryPrompt(as) ==
    [template |-> "summary",
     totalCommits |-> TotalCommits(as),
     categories |-> {IF "category" \in DOMAIN as[k] THEN as[k].category ELSE "other" :
                         k \in 1..Len(as)}]

-----------------------------------------------------------------------------
(* analyzeCommitBatches *)

\* value >= n of JavaScript: a string that is no number compares false
JsGE(v, n) == "num" \in DOMAIN v /\ v.num >= n

\* the truthiness of a JSON number or string
JsTruthy(v) == IF "num" \in DOMAIN v THEN v.num # 0 ELSE v.str # ""

\* obj with the property name set to val
SetField(obj, name, val) == (name :> val) @@ obj

summarizeCommitMessages(cs) ==
    IF Len(cs) = 0 THEN ""
    ELSE IF Len(cs) = 1 THEN FirstLine(cs[1].message)
    ELSE FirstLine(cs[1].message) \o " (and " \o ToString(Len(cs) - 1)
         \o " more commits)"

\* the Analysis pushed when the classification arrived
Pass1Analysis(batch, data, usage) ==
    LET base == [batch |-> batch,
                 category |-> IF "category" \in DOMAIN data /\ data.category # ""
                              THEN data.category ELSE batch.category,
                 importance |-> IF "importance" \in DOMAIN data /\ JsTruthy(data.importance)
                                THEN data.importance ELSE JsNum(1),
                 tokensUsed |-> usage]
    IN IF "description" \in DOMAIN data
       THEN SetField(base, "description", data.description)
       ELSE base

\* FallbackAnalysis with the description of the newest commit alone
FallbackAnalysis_NoCount(batch, message) ==
    [batch |-> batch,
     category |-> batch.category,
     description |-> FirstLine(batch.commits[1].message),
     importance |-> JsNum(2),
     error |-> message]

\* mutant: the fallback importance is the threshold itself
FallbackAnalysis_Important(batch, message) ==
    [batch |-> batch,
     category |-> batch.category,
     description |-> summarizeCommitMessages(batch.commits),
     importance |-> JsNum(3),
     error |-> message]

\* the Analysis pushed when the classification failed
FallbackAnalysis(batch, message) ==
    [batch |-> batch,
     category |-> batch.category,
     description |-> summarizeCommitMessages(batch.commits),
     importance |-> JsNum(2),
     error |-> message]

\* mutant: every Analysis is escalated, whatever its importance
ImportantUpTo_All(as, n) == [k \in 1..n |-> k]

\* analyses.filter(a => a.importance >= IMPORTANCE_THRESHOLD), as indices
RECURSIVE ImportantUpTo(_, _)
ImportantUpTo(as, n) ==
    IF n = 0 THEN <<>>
    ELSE IF JsGE(as[n].importance, IMPORTANCE_THRESHOLD)
         THEN Append(ImportantUpTo(as, n - 1), n)
         ELSE ImportantUpTo(as, n - 1)

ImportantIndices(as) == ImportantUpTo(as, Len(as))

\* options.detailed !== false
DetailedWanted(opts) == ~("detailed" \in DOMAIN opts /\ opts.detailed = FALSE)

\* DetailedAnalysis that also rewrites the description
DetailedAnalysis_OverwritesDescription(analysis, result, chg) ==
    SetField(SetField(SetField(analysis,
        "detailedAnalysis", result.text),
        "changes", chg),
        "description", result.text)

\* the Analysis after Pass 2 succeeded for it
DetailedAnalysis(analysis, result, chg) ==
    SetField(SetField(SetField(analysis,
        "detailedAnalysis", result.text),
        "changes", chg),
        "tokensUsed", SetField(IF "tokensUsed" \in DOMAIN analysis
                               THEN analysis.tokensUsed ELSE NoOptions,
                               "detailed", result.usage))

\* FailedDetail that records nothing
FailedDetail_RecordsNothing(analysis, message) == analysis

\* the Analysis after Pass 2 failed for it
FailedDetail(analysis, message) == SetField(analysis, "detailedError", message)

\* mutant: the request is made for the batches from the oldest one on
Pass1Call_OldestFirst ==
    /\ apc = "pass1"
    /\ i < Len(batches)
    /\ inflight = NoCall
    /\ inflight' = GenerateCall(batchCategorizationPrompt(batches[Len(batches) - i]), "VERY_FAST")
    /\ apc' = "pass1Await"
    /\ UNCHANGED <<aopts, i, analyses, importantBatches, changes>>
    /\ UNCHANGED <<batchVars, extractVars, summaryVars, usageTracker>>
    /\ UNCHANGED <<runVars, callVars, storageVars>>

\* Pass 1, iteration i: the classification request is issued
Pass1Call ==
    /\ apc = "pass1"
    /\ i < Len(batches)
    /\ inflight = NoCall
    /\ inflight' = GenerateCall(batchCategorizationPrompt(batches[i + 1]), "VERY_FAST")
    /\ apc' = "pass1Await"
    /\ UNCHANGED <<aopts, i, analyses, importantBatches, changes>>
    /\ UNCHANGED <<batchVars, extractVars, summaryVars, usageTracker>>
    /\ UNCHANGED <<runVars, callVars, storageVars>>

\* Pass 1, iteration i: generateJSON resolved
Pass1Classified ==
    /\ apc = "pass1Await"
    /\ inflight.status # "pending"
    /\ GenerateJSONOutcome(inflight).ok
    /\ analyses' = Append(analyses,
                          Pass1Analysis(batches[i + 1], GenerateJSONOutcome(inflight).data,
                                        GenerateJSONOutcome(inflight).usage))
    /\ usageTracker' = TrackerAfter(inflight, usageTracker)
    /\ inflight' = NoCall
    /\ i' = i + 1
    /\ apc' = "pass1"
    /\ UNCHANGED <<aopts, importantBatches, changes>>
    /\ UNCHANGED <<batchVars, extractVars, summaryVars>>
    /\ UNCHANGED <<runVars, callVars, storageVars>>

\* Pass1Failed without the push of the catch
Pass1Failed_SkipsBatch ==
    /\ apc = "pass1Await"
    /\ inflight.status # "pending"
    /\ ~GenerateJSONOutcome(inflight).ok
    /\ usageTracker' = TrackerAfter(inflight, usageTracker)
    /\ inflight' = NoCall
    /\ i' = i + 1
    /\ apc' = "pass1"
    /\ UNCHANGED <<aopts, analyses, importantBatches, changes>>
    /\ UNCHANGED <<batchVars, extractVars, summaryVars>>
    /\ UNCHANGED <<runVars, callVars, storageVars>>

\* Pass 1, iteration i: generateJSON rejected and the catch pushes the fallback
Pass1Failed ==
    /\ apc = "pass1Await"
    /\ inflight.status # "pending"
    /\ ~GenerateJSONOutcome(inflight).ok
    /\ analyses' = Append(analyses,
                          FallbackAnalysis(batches[i + 1], GenerateJSONOutcome(inflight).message))
    /\ usageTracker' = TrackerAfter(inflight, usageTracker)
    /\ inflight' = NoCall
    /\ i' = i + 1
    /\ apc' = "pass1"
    /\ UNCHANGED <<aopts, importantBatches, changes>>
    /\ UNCHANGED <<batchVars, extractVars, summaryVars>>
    /\ UNCHANGED <<runVars, callVars, storageVars>>

\* Pass 1 is over, there are escalated analyses and Pass 2 is wanted
Pass2Enter ==
    /\ apc = "pass1"
    /\ i = Len(batches)
    /\ Len(ImportantIndices(analyses)) > 0 /\ DetailedWanted(aopts)
    /\ importantBatches' = ImportantIndices(analyses)
    /\ i' = 0
    /\ apc' = "pass2"
    /\ UNCHANGED <<aopts, analyses, changes>>
    /\ UNCHANGED <<batchVars, extractVars, summaryVars, remoteVars>>
    /\ UNCHANGED <<runVars, callVars, storageVars>>

\* Pass 1 is over and Pass 2 is skipped: the analyses are returned
Pass2Skip ==
    /\ apc = "pass1"
    /\ i = Len(batches)
    /\ ~(Len(ImportantIndices(analyses)) > 0 /\ DetailedWanted(aopts))
    /\ importantBatches' = ImportantIndices(analyses)
    /\ apc' = "returned"
    /\ UNCHANGED <<aopts, i, analyses, changes>>
    /\ UNCHANGED <<batchVars, extractVars, summaryVars, remoteVars>>
    /\ UNCHANGED <<runVars, callVars, storageVars>>

\* mutant: the changes are always extracted for the batch of the first
\* escalated Analysis
Pass2CallExtract_FirstBatch ==
    /\ apc = "pass2"
    /\ i < Len(importantBatches)
    /\ xpc = "idle"
    /\ xpc' = "called"
    /\ xbatch' = analyses[importantBatches[1]].batch
    /\ xret' = [type |-> "none"]
    /\ apc' = "pass2Extract"
    /\ UNCHANGED <<aopts, i, analyses, importantBatches, changes>>
    /\ UNCHANGED <<batchVars, summaryVars, remoteVars>>
    /\ UNCHANGED <<runVars, callVars, storageVars>>

\* Pass 2, iteration i: extractEffectiveChanges(analysis.batch, owner, repo) is called
Pass2CallExtract ==
    /\ apc = "pass2"
    /\ i < Len(importantBatches)
    /\ xpc = "idle"
    /\ xpc' = "called"
    /\ xbatch' = analyses[importantBatches[i + 1]].batch
    /\ xret' = [type |-> "none"]
    /\ apc' = "pass2Extract"
    /\ UNCHANGED <<aopts, i, analyses, importantBatches, changes>>
    /\ UNCHANGED <<batchVars, summaryVars, remoteVars>>
    /\ UNCHANGED <<runVars, callVars, storageVars>>

\* Pass 2, iteration i: extractEffectiveChanges rejected, the catch records it
Pass2ExtractFailed ==
    /\ apc = "pass2Extract"
    /\ xpc = "rejected"
    /\ analyses' = [analyses EXCEPT ![importantBatches[i + 1]] = FailedDetail(@, xret.message)]
    /\ xpc' = "idle" /\ xbatch' = EmptyBatch /\ xret' = [type |-> "none"]
    /\ i' = i + 1
    /\ apc' = "pass2"
    /\ UNCHANGED <<aopts, importantBatches, changes>>
    /\ UNCHANGED <<batchVars, summaryVars, remoteVars>>
    /\ UNCHANGED <<runVars, callVars, storageVars>>

\* Pass 2, iteration i: the changes arrived, the detailed request is issued
Pass2CallGenerate ==
    /\ apc = "pass2Extract"
    /\ xpc = "resolved"
    /\ inflight = NoCall
    /\ changes' = xret
    /\ inflight' = GenerateCall(detailedAnalysisPrompt(xbatch, xret), "HIGH_REASONING")
    /\ xpc' = "idle" /\ xbatch' = EmptyBatch /\ xret' = [type |-> "none"]
    /\ apc' = "pass2Await"
    /\ UNCHANGED <<aopts, i, analyses, importantBatches>>
    /\ UNCHANGED <<batchVars, summaryVars, usageTracker>>
    /\ UNCHANGED <<runVars, callVars, storageVars>>

\* Pass 2, iteration i: the detailed analysis arrived
Pass2Detailed ==
    /\ apc = "pass2Await"
    /\ inflight.status = "fulfilled"
    /\ analyses' = [analyses EXCEPT ![importantBatches[i + 1]] =
                        DetailedAnalysis(@, GenerateResult(inflight), changes)]
    /\ usageTracker' = TrackerAfter(inflight, usageTracker)
    /\ inflight' = NoCall
    /\ changes' = [type |-> "none"]
    /\ i' = i + 1
    /\ apc' = "pass2"
    /\ UNCHANGED <<aopts, importantBatches>>
    /\ UNCHANGED <<batchVars, extractVars, summaryVars>>
    /\ UNCHANGED <<runVars, callVars, storageVars>>

\* Pass 2, iteration i: the detailed request failed, the catch records it
Pass2Failed ==
    /\ apc = "pass2Await"
    /\ inflight.status = "rejected"
    /\ analyses' = [analyses EXCEPT ![importantBatches[i + 1]] =
                        FailedDetail(@, inflight.reason)]
    /\ usageTracker' = TrackerAfter(inflight, usageTracker)
    /\ inflight' = NoCall
    /\ changes' = [type |-> "none"]
    /\ i' = i + 1
    /\ apc' = "pass2"
    /\ UNCHANGED <<aopts, importantBatches>>
    /\ UNCHANGED <<batchVars, extractVars, summaryVars>>
    /\ UNCHANGED <<runVars, callVars, storageVars>>

\* Pass 2 is over: the analyses are returned
Pass2Return ==
    /\ apc = "pass2"
    /\ i = Len(importantBatches)
    /\ apc' = "returned"
    /\ UNCHANGED <<aopts, i, analyses, importantBatches, changes>>
    /\ UNCHANGED <<batchVars, extractVars, summaryVars, remoteVars>>
    /\ UNCHANGED <<runVars, callVars, storageVars>>

AnalyzeStep ==
    \/ Pass1Call
    \/ Pass1Classified
    \/ Pass1Failed
    \/ Pass2Enter
    \/ Pass2Skip
    \/ Pass2CallExtract
    \/ Pass2ExtractFailed
    \/ Pass2CallGenerate
    \/ Pass2Detailed
    \/ Pass2Failed
    \/ Pass2Return

-----------------------------------------------------------------------------
(* generatePortfolioSummary *)

\* the summary request is issued for the analyses that were returned
SummaryCall ==
    /\ apc = "returned"
    /\ spc = "idle"
    /\ inflight = NoCall
    /\ inflight' = GenerateCall(portfolioSummaryPrompt(analyses), "BALANCED")
    /\ spc' = "await"
    /\ UNCHANGED <<sret, batchVars, extractVars, analyzerVars, usageTracker>>
    /\ UNCHANGED <<runVars, callVars, storageVars>>

\* the summary arrived: it is returned with the usage and the usage report
SummaryResolve ==
    /\ spc = "await"
    /\ inflight.status = "fulfilled"
    /\ usageTracker' = TrackerAfter(inflight, usageTracker)
    /\ sret' = [type |-> "summary",
                summary |-> GenerateResult(inflight).text,
                usage |-> GenerateResult(inflight).usage,
                totalUsage |-> GetTotal(usageTracker')]
    /\ spc' = "resolved"
    /\ inflight' = NoCall
    /\ UNCHANGED <<batchVars, extractVars, analyzerVars>>
    /\ UNCHANGED <<runVars, callVars, storageVars>>

\* SummaryReject with a catch that returns an empty summary
SummaryReject_ReturnsFallback ==
    /\ spc = "await"
    /\ inflight.status = "rejected"
    /\ usageTracker' = TrackerAfter(inflight, usageTracker)
    /\ sret' = [type |-> "summary",
                summary |-> "",
                usage |-> [inputTokens |-> 0, outputTokens |-> 0],
                totalUsage |-> GetTotal(usageTracker')]
    /\ spc' = "resolved"
    /\ inflight' = NoCall
    /\ UNCHANGED <<batchVars, extractVars, analyzerVars>>
    /\ UNCHANGED <<runVars, callVars, storageVars>>

\* the summary request failed: the catch throws the error again
SummaryReject ==
    /\ spc = "await"
    /\ inflight.status = "rejected"
    /\ usageTracker' = TrackerAfter(inflight, usageTracker)
    /\ sret' = [type |-> "error", message |-> inflight.reason]
    /\ spc' = "rejected"
    /\ inflight' = NoCall
    /\ UNCHANGED <<batchVars, extractVars, analyzerVars>>
    /\ UNCHANGED <<runVars, callVars, storageVars>>

SummaryStep == SummaryCall \/ SummaryResolve \/ SummaryReject

-----------------------------------------------------------------------------
(* categorizeWork and getAnalysisStats *)

\* the keys of the categories object, in the order they are written
KnownCategories ==
    <<"feature", "bugfix", "refactor", "docs", "test", "performance", "chore",
      "style", "other">>

\* names every object inherits from Object.prototype: categories[name] is a
\* function (the prototype itself for __proto__), which is truthy and has no push
InheritedProperties ==
    {"constructor", "toString", "toLocaleString", "valueOf", "hasOwnProperty",
     "isPrototypeOf", "propertyIsEnumerable", "__proto__"}

\* analysis.category || 'other'
CategoryOrOther(analysis) ==
    IF "category" \in DOMAIN analysis /\ analysis.category # ""
    THEN analysis.category ELSE "other"

\* the key of categories the analysis is pushed to
CategorySlot(analysis) ==
    IF \E k \in 1..Len(KnownCategories) : KnownCategories[k] = CategoryOrOther(analysis)
    THEN CategoryOrOther(analysis) ELSE "other"

\* categorizeWork(analyses): the categories object, or the TypeError of the
\* push on an inherited property
categorizeWork(as) ==
    IF \E k \in 1..Len(as) : CategoryOrOther(as[k]) \in InheritedProperties
    THEN [type |-> "threw", message |-> "categories[category].push is not a function"]
    ELSE [type |-> "returned",
          value |-> [c \in {KnownCategories[k] : k \in 1..Len(KnownCategories)} |->
                        LET InSlot(a) == CategorySlot(a) = c IN SelectSeq(as, InSlot)]]

\* a.detailedAnalysis as a condition: set and not the empty string
HasDetailedText(analysis) ==
    "detailedAnalysis" \in DOMAIN analysis /\ analysis.detailedAnalysis # ""

\* getAnalysisStats(analyses): the statistics, or the error of categorizeWork
getAnalysisStats(as) ==
    LET categorized == categorizeWork(as)
        Important(a) == JsGE(a.importance, IMPORTANCE_THRESHOLD)
    IN IF categorized.type = "threw" THEN categorized
       ELSE [type |-> "returned",
             value |-> [totalBatches |-> Len(as),
                        totalCommits |-> TotalCommits(as),
                        byCategory |-> [c \in DOMAIN categorized.value |->
                                           Len(categorized.value[c])],
                        importantCount |-> Len(SelectSeq(as, Important)),
                        detailedCount |-> Len(SelectSeq(as, HasDetailedText))]]

-----------------------------------------------------------------------------
(* cache.js: the cache of commits, analyses and analyzed repositories; an   *)
(* object of the store is a function from its keys, and the time an entry   *)
(* is written at is left out (every entry is fresh)                          *)

getRepoKey(owner, repo) == owner \o "/" \o repo

\* cacheStore.delete of the entry name of an object
DeleteField(obj, name) == [k \in DOMAIN obj \ {name} |-> obj[k]]

cacheCommits(cache, owner, repo, cs) ==
    LET entry == [commits |-> cs, count |-> Len(cs)]
    IN [cache EXCEPT !.commits =
            SetField(@, getRepoKey(owner, repo),
                     IF Len(cs) > 0 THEN SetField(entry, "lastSha", cs[1].sha) ELSE entry)]

\* the key of an analysis entry
AnalysisKey(owner, repo, startSha, endSha) ==
    getRepoKey(owner, repo) \o ":" \o Slice(startSha, 7) \o ".." \o Slice(endSha, 7)

cacheAnalysis(cache, owner, repo, startSha, endSha, analysis) ==
    [cache EXCEPT !.analysis =
        SetField(@, AnalysisKey(owner, repo, startSha, endSha), analysis)]

clearRepoCache(cache, owner, repo) ==
    LET key == getRepoKey(owner, repo)
        kept == {a \in DOMAIN cache.analysis : ~StartsWith(a, key)}
    IN [cache EXCEPT !.commits = DeleteField(@, key),
                     !.analysis = [a \in kept |-> cache.analysis[a]]]

markRepoAnalyzed(cache, owner, repo, summary) ==
    [cache EXCEPT !.analyzedRepos =
        SetField(@, getRepoKey(owner, repo),
                 [commitCount |-> summary.commitCount, batchCount |-> summary.batchCount])]

isRepoAnalyzed(cache, owner, repo) ==
    getRepoKey(owner, repo) \in DOMAIN cache.analyzedRepos

saveRepoAnalysis(cache, owner, repo, analysis) ==
    [cache EXCEPT !.repoAnalysis = SetField(@, getRepoKey(owner, repo), analysis)]

\* cmdAnalyzeAll: repos.filter(r => !isRepoAnalyzed(r.owner.login, r.name))
UnanalyzedRepos(repos, cache) ==
    LET NotAnalyzed(r) == ~isRepoAnalyzed(cache, r.owner, r.name)
    IN SelectSeq(repos, NotAnalyzed)

-----------------------------------------------------------------------------
(* A run: batches of a commit list are analyzed, then summarized *)

\* longest commit list of a run
MaxRunCommits == 3

\* timestamps (hours) and messages of the commits of a run
RunHours == {0, 6}
RunMessages == {"update\nadd tests", "Fix login bug"}

\* the options analyzeCommitBatches is called with
AnalyzeOptions == {NoOptions, [detailed |-> FALSE]}

\* what the usage tracker can hold when a run begins: nothing, or the usage of
\* an earlier run of the process
TrackersAtEntry ==
    {NewTracker, Track(NewTracker, "generate:BALANCED", CompletionUsage)}

\* analyzeRepository is entered; commits are the commits it will batch
Init ==
    /\ commits \in CommitListsOver(RunHours, RunMessages, MaxRunCommits)
    /\ options = NoOptions
    /\ bpc = "returned"
    /\ sortedCommits = SortNewestFirst(commits)
    /\ walk = Len(commits)
    /\ currentBatch = LoopPrefix(SortNewestFirst(commits), Len(commits), NoOptions).cb
    /\ batches = batchCommitsByFeature(commits, NoOptions)
    /\ ExtractIdle
    /\ aopts \in AnalyzeOptions
    /\ apc = "idle"
    /\ i = 0
    /\ analyses = <<>>
    /\ importantBatches = <<>>
    /\ changes = [type |-> "none"]
    /\ spc = "idle"
    /\ sret = [type |-> "none"]
    /\ inflight = NoCall
    /\ usageTracker \in TrackersAtEntry
    /\ served = <<>>
    /\ rpc = "entered"
    /\ rret = [type |-> "none"]
    /\ CallIdle
    /\ StorageIdle

\* the repository of the run
RunOwner == "o"
RunRepo == "app"

\* the reasons writing the report file fails with
ExportErrors == {"EACCES: permission denied"}

\* mutant: the run begins without resetUsageTracking()
RunStart_KeepsUsage ==
    /\ rpc = "entered"
    /\ Len(commits) > 0
    /\ cacheStore' = cacheCommits(cacheStore, RunOwner, RunRepo, commits)
    /\ rpc' = "running"
    /\ apc' = "pass1"
    /\ UNCHANGED <<aopts, i, analyses, importantBatches, changes>>
    /\ UNCHANGED <<served, rret, inflight, usageTracker>>
    /\ UNCHANGED <<batchVars, extractVars, summaryVars, callVars, authVars>>

\* resetUsageTracking(); the commits are fetched and cached; there are some,
\* and their batches are handed to analyzeCommitBatches
RunStart ==
    /\ rpc = "entered"
    /\ Len(commits) > 0
    /\ usageTracker' = NewTracker
    /\ cacheStore' = cacheCommits(cacheStore, RunOwner, RunRepo, commits)
    /\ rpc' = "running"
    /\ apc' = "pass1"
    /\ UNCHANGED <<aopts, i, analyses, importantBatches, changes>>
    /\ UNCHANGED <<served, rret, inflight>>
    /\ UNCHANGED <<batchVars, extractVars, summaryVars, callVars, authVars>>

\* resetUsageTracking(); no commit was fetched: the empty list is cached and
\* the run returns early
RunNoCommits ==
    /\ rpc = "entered"
    /\ Len(commits) = 0
    /\ usageTracker' = NewTracker
    /\ cacheStore' = cacheCommits(cacheStore, RunOwner, RunRepo, commits)
    /\ rpc' = "returnedEarly"
    /\ rret' = [type |-> "early", analyses |-> <<>>, stats |-> [totalCommits |-> 0]]
    /\ UNCHANGED <<served, inflight>>
    /\ UNCHANGED <<batchVars, extractVars, analyzerVars, summaryVars, callVars, authVars>>

\* resetUsageTracking(); getRepositoryDetails or fetchUserCommits rejected:
\* so does the run, before anything is cached
RunFetchFail ==
    /\ rpc = "entered"
    /\ usageTracker' = NewTracker
    /\ rpc' = "rejected"
    /\ \E r \in ProviderErrors : rret' = [type |-> "error", message |-> r]
    /\ UNCHANGED <<served, inflight>>
    /\ UNCHANGED <<batchVars, extractVars, analyzerVars, summaryVars, callVars, storageVars>>

\* the summary has arrived: const totalUsage = getUsageReport(), the
\* repository is marked analyzed, the result is saved, and the report file
\* is being written
RunReport ==
    /\ rpc = "running"
    /\ spc = "resolved"
    /\ rret' = [type |-> "report", totalUsage |-> GetTotal(usageTracker)]
    /\ cacheStore' =
           saveRepoAnalysis(
               markRepoAnalyzed(cacheStore, RunOwner, RunRepo,
                                [commitCount |-> Len(commits), batchCount |-> Len(batches)]),
               RunOwner, RunRepo,
               [analyses |-> analyses, summary |-> sret,
                totalUsage |-> GetTotal(usageTracker)])
    /\ rpc' = "reported"
    /\ UNCHANGED served
    /\ UNCHANGED <<batchVars, extractVars, analyzerVars, summaryVars, remoteVars, callVars,
                   authVars>>

\* the report file is written: the run returns the result
RunExported ==
    /\ rpc = "reported"
    /\ rpc' = "resolved"
    /\ UNCHANGED <<served, rret>>
    /\ UNCHANGED <<batchVars, extractVars, analyzerVars, summaryVars, remoteVars, callVars,
                   storageVars>>

\* exportToFile rejected: so does the run
RunExportFail ==
    /\ rpc = "reported"
    /\ rpc' = "rejected"
    /\ \E r \in ExportErrors : rret' = [type |-> "error", message |-> r]
    /\ UNCHANGED served
    /\ UNCHANGED <<batchVars, extractVars, analyzerVars, summaryVars, remoteVars, callVars,
                   storageVars>>

\* mutant: a run whose synthesis failed marks the repository all the same
RunFail_MarksRepo ==
    /\ rpc = "running"
    /\ spc = "rejected"
    /\ rret' = sret
    /\ cacheStore' = markRepoAnalyzed(cacheStore, RunOwner, RunRepo,
                                      [commitCount |-> Len(commits),
                                       batchCount |-> Len(batches)])
    /\ rpc' = "rejected"
    /\ UNCHANGED served
    /\ UNCHANGED <<batchVars, extractVars, analyzerVars, summaryVars, remoteVars, callVars,
                   authVars>>

\* generatePortfolioSummary rejected: so does the run
RunFail ==
    /\ rpc = "running"
    /\ spc = "rejected"
    /\ rret' = sret
    /\ rpc' = "rejected"
    /\ UNCHANGED served
    /\ UNCHANGED <<batchVars, extractVars, analyzerVars, summaryVars, remoteVars, callVars,
                   storageVars>>

RunStep ==
    \/ RunStart
    \/ RunNoCommits
    \/ RunFetchFail
    \/ RunReport
    \/ RunExported
    \/ RunExportFail
    \/ RunFail

Next ==
    RunStep \/ AnalyzeStep \/ ExtractStep \/ SummaryStep \/ ProviderResolve \/ ProviderReject

Spec == Init /\ [][Next]_vars

-----------------------------------------------------------------------------
(* Synchronous helpers called on their own *)

\* batchCommitsByFeature is not called
BatchIdle ==
    /\ commits = <<>>
    /\ options = NoOptions
    /\ bpc = "idle"
    /\ sortedCommits = <<>>
    /\ walk = 0
    /\ currentBatch = EmptyBatch
    /\ batches = <<>>

\* how often a helper is called on the same argument
CallsPerInput == 2

\* words of commit messages: keywords of every rule of detectCategory, in
\* both cases, and words no rule knows
CategoryWords ==
    {"feat", "add", "Fix", "bugs", "Refactor", "docs", "tests", "chore",
     "CI", "style", "lint", "perf", "wip"}

\* messages of one word and of two
CategoryMessages ==
    CategoryWords \cup {v \o " " \o w : v \in CategoryWords, w \in CategoryWords}

InitCategory ==
    /\ BatchIdle
    /\ ExtractIdle
    /\ AnalyzerIdle
    /\ RemoteIdle
    /\ RunIdle
    /\ StorageIdle
    /\ fpc = "detectCategory"
    /\ farg \in CategoryMessages
    /\ fret = <<>>

\* detectCategory(message) is called and returns
CategoryCall ==
    /\ fpc = "detectCategory"
    /\ Len(fret) < CallsPerInput
    /\ fret' = Append(fret, detectCategory(farg))
    /\ UNCHANGED <<fpc, farg>>
    /\ UNCHANGED <<batchVars, extractVars, analyzerVars, summaryVars, remoteVars, runVars, storageVars>>

NextCategory == CategoryCall

SpecCategory == InitCategory /\ [][NextCategory]_vars

\* longest Analysis sequence handed to getAnalysisStats
MaxStatsAnalyses == 2

\* the batches of the Analyses: one bugfix commit, and one commit no rule knows
StatsBatches ==
    UNION { {batchCommitsByFeature(cs, NoOptions)[b] :
                b \in 1..Len(batchCommitsByFeature(cs, NoOptions))} :
            cs \in CommitListsOver({0}, {"Fix login bug", "wip stuff"}, 1) }

\* the classification objects: those of ClassificationTexts and one whose
\* category is the name of an inherited property
StatsReplies ==
    {t.json : t \in {c \in ClassificationTexts : "json" \in DOMAIN c}}
    \cup {[category |-> "constructor", description |-> "Rewrote the constructor",
           importance |-> JsNum(4)]}

\* the Analyses Pass 1 makes of them
StatsPass1Analyses ==
    {Pass1Analysis(b, d, [inputTokens |-> CompletionUsage.promptTokens,
                          outputTokens |-> CompletionUsage.completionTokens]) :
        b \in StatsBatches, d \in StatsReplies}
    \cup {FallbackAnalysis(b, r) : b \in StatsBatches, r \in CompletionErrors}

\* what Pass 2 can make of an Analysis
StatsPass2Outcomes(a) ==
    IF JsGE(a.importance, IMPORTANCE_THRESHOLD)
    THEN {a}
         \cup {DetailedAnalysis(a, [text |-> t,
                                   usage |-> [inputTokens |-> CompletionUsage.promptTokens,
                                              outputTokens |-> CompletionUsage.completionTokens]],
                                MessagesOnlyChanges(a.batch.commits)) : t \in ProseTexts}
         \cup {FailedDetail(a, r) : r \in ProviderErrors}
    ELSE {a}

StatsAnalyses == UNION {StatsPass2Outcomes(a) : a \in StatsPass1Analyses}

StatsInputs == UNION {[1..n -> StatsAnalyses] : n \in 0..MaxStatsAnalyses}

\* mutant: the call strips the detailed text off the Analyses it has counted
AnalysesAfterStats_Consumed(as) ==
    [k \in 1..Len(as) |-> [f \in DOMAIN as[k] \ {"detailedAnalysis"} |-> as[k][f]]]

\* the Analyses after getAnalysisStats(analyses): categorizeWork pushes them to
\* arrays of its own and nothing is assigned to them
AnalysesAfterStats(as) == as

InitStats ==
    /\ BatchIdle
    /\ ExtractIdle
    /\ AnalyzerIdle
    /\ RemoteIdle
    /\ RunIdle
    /\ StorageIdle
    /\ fpc = "getAnalysisStats"
    /\ farg \in StatsInputs
    /\ fret = <<>>

\* getAnalysisStats(analyses) is called and returns or throws
StatsCall ==
    /\ fpc = "getAnalysisStats"
    /\ Len(fret) < CallsPerInput
    /\ fret' = Append(fret, getAnalysisStats(farg))
    /\ farg' = AnalysesAfterStats(farg)
    /\ UNCHANGED fpc
    /\ UNCHANGED <<batchVars, extractVars, analyzerVars, summaryVars, remoteVars, runVars, storageVars>>

NextStats == StatsCall

SpecStats == InitStats /\ [][NextStats]_vars

-----------------------------------------------------------------------------
(* The cache functions called on their own *)

\* how many calls of cache functions are made in a row
MaxCacheCalls == 3

\* the repositories: the key of the first is a prefix of the key of the second
CacheRepos ==
    {[owner |-> "o", repo |-> "app"], [owner |-> "o", repo |-> "app2"],
     [owner |-> "p", repo |-> "lib"]}

\* the commit ranges analyses are cached for: (startSha, endSha)
CacheRanges == {<<"1f3a9c07e2", "8b2d4e6f01">>}

\* the commits and the analysis that are cached
CachedCommitList == <<[sha |-> "8b2d4e6f01", date |-> 1, message |-> "Fix login bug"]>>
CachedAnalysis == [summary |-> "Fixed the login"]

InitCache ==
    /\ BatchIdle
    /\ ExtractIdle
    /\ AnalyzerIdle
    /\ RemoteIdle
    /\ RunIdle
    /\ cacheStore = EmptyCache
    /\ store = EmptyStore
    /\ authpc = "idle"
    /\ authret = [type |-> "none"]
    /\ fpc = "cache"
    /\ farg = [fn |-> "none"]
    /\ fret = <<>>

\* cacheCommits(owner, repo, commits) is called and returns
CacheCommitsCall ==
    /\ fpc = "cache"
    /\ Len(fret) < MaxCacheCalls
    /\ \E r \in CacheRepos :
           /\ cacheStore' = cacheCommits(cacheStore, r.owner, r.repo, CachedCommitList)
           /\ farg' = [fn |-> "cacheCommits", owner |-> r.owner, repo |-> r.repo]
    /\ fret' = Append(fret, "undefined")
    /\ UNCHANGED <<fpc, authVars>>
    /\ UNCHANGED <<batchVars, extractVars, analyzerVars, summaryVars, remoteVars, runVars>>

\* cacheAnalysis(owner, repo, startSha, endSha, analysis) is called and returns
CacheAnalysisCall ==
    /\ fpc = "cache"
    /\ Len(fret) < MaxCacheCalls
    /\ \E r \in CacheRepos, range \in CacheRanges :
           /\ cacheStore' = cacheAnalysis(cacheStore, r.owner, r.repo,
                                          range[1], range[2], CachedAnalysis)
           /\ farg' = [fn |-> "cacheAnalysis", owner |-> r.owner, repo |-> r.repo]
    /\ fret' = Append(fret, "undefined")
    /\ UNCHANGED <<fpc, authVars>>
    /\ UNCHANGED <<batchVars, extractVars, analyzerVars, summaryVars, remoteVars, runVars>>

\* clearRepoCache(owner, repo) is called and returns
ClearRepoCacheCall ==
    /\ fpc = "cache"
    /\ Len(fret) < MaxCacheCalls
    /\ \E r \in CacheRepos :
           /\ cacheStore' = clearRepoCache(cacheStore, r.owner, r.repo)
           /\ farg' = [fn |-> "clearRepoCache", owner |-> r.owner, repo |-> r.repo]
    /\ fret' = Append(fret, "undefined")
    /\ UNCHANGED <<fpc, authVars>>
    /\ UNCHANGED <<batchVars, extractVars, analyzerVars, summaryVars, remoteVars, runVars>>

NextCache == CacheCommitsCall \/ CacheAnalysisCall \/ ClearRepoCacheCall

SpecCache == InitCache /\ [][NextCache]_vars

-----------------------------------------------------------------------------
(* storage.js and the authentication operations of auth.js *)

saveToken(st, token) == SetField(st, "githubToken", token)

saveUser(st, user) == SetField(st, "githubUser", user)

\* clearAuth(): both entries are deleted
clearAuth(st) == [k \in DOMAIN st \ {"githubToken", "githubUser"} |-> st[k]]

\* isAuthenticated(): !!getToken()
isAuthenticated(st) == "githubToken" \in DOMAIN st /\ st.githubToken # ""

\* the tokens the device flow hands out, and the users GitHub reports
AuthTokens == {"gho_one", "gho_two", "gho_three"}
AuthUsers ==
    {[login |-> "alice", name |-> "Alice", id |-> 1],
     [login |-> "bob", name |-> "Bob", id |-> 2],
     [login |-> "carol", name |-> "Carol", id |-> 3]}

\* the HTTP status of a failed token verification
VerifyStatuses == {401, 403, 500}

\* the reasons the device flow and the user request fail with
AuthErrors == {"access_denied", "network"}

InitAuth ==
    /\ BatchIdle
    /\ ExtractIdle
    /\ AnalyzerIdle
    /\ RemoteIdle
    /\ RunIdle
    /\ CallIdle
    /\ cacheStore = EmptyCache
    /\ store = EmptyStore
    /\ authpc = "idle"
    /\ authret = [type |-> "none"]

\* authenticate() is called: it awaits the device flow
AuthenticateCall ==
    /\ authpc = "idle"
    /\ authpc' = "authDevice"
    /\ authret' = [type |-> "none"]
    /\ UNCHANGED <<store, cacheVars>>
    /\ UNCHANGED <<batchVars, extractVars, analyzerVars, summaryVars, remoteVars, runVars,
                   callVars>>

\* the user authorized: saveToken(token), then the user is asked for
AuthDeviceGranted ==
    /\ authpc = "authDevice"
    /\ \E token \in AuthTokens : store' = saveToken(store, token)
    /\ authpc' = "authUser"
    /\ UNCHANGED <<authret, cacheVars>>
    /\ UNCHANGED <<batchVars, extractVars, analyzerVars, summaryVars, remoteVars, runVars,
                   callVars>>

\* the device flow failed: the catch throws the error again
AuthDeviceFailed ==
    /\ authpc = "authDevice"
    /\ \E r \in AuthErrors :
           authret' = [type |-> "threw", op |-> "authenticate", message |-> r]
    /\ authpc' = "idle"
    /\ UNCHANGED <<store, cacheVars>>
    /\ UNCHANGED <<batchVars, extractVars, analyzerVars, summaryVars, remoteVars, runVars,
                   callVars>>

\* octokit.users.getAuthenticated() resolved: saveUser, and { token, user } is returned
AuthUserResolved ==
    /\ authpc = "authUser"
    /\ \E user \in AuthUsers :
           /\ store' = saveUser(store, user)
           /\ authret' = [type |-> "returned", op |-> "authenticate",
                          token |-> store.githubToken, user |-> user]
    /\ authpc' = "idle"
    /\ UNCHANGED cacheVars
    /\ UNCHANGED <<batchVars, extractVars, analyzerVars, summaryVars, remoteVars, runVars,
                   callVars>>

\* octokit.users.getAuthenticated() rejected: the catch throws the error again
AuthUserFailed ==
    /\ authpc = "authUser"
    /\ \E r \in AuthErrors :
           authret' = [type |-> "threw", op |-> "authenticate", message |-> r]
    /\ authpc' = "idle"
    /\ UNCHANGED <<store, cacheVars>>
    /\ UNCHANGED <<batchVars, extractVars, analyzerVars, summaryVars, remoteVars, runVars,
                   callVars>>

\* getAuthenticatedOctokit() without a token: it throws
OctokitNoToken ==
    /\ authpc = "idle"
    /\ ~isAuthenticated(store)
    /\ authret' = [type |-> "threw", op |-> "getAuthenticatedOctokit",
                   message |-> "Not authenticated. Please run with --auth first."]
    /\ UNCHANGED <<store, authpc, cacheVars>>
    /\ UNCHANGED <<batchVars, extractVars, analyzerVars, summaryVars, remoteVars, runVars,
                   callVars>>

\* getAuthenticatedOctokit() with a token: the token is being verified
OctokitCall ==
    /\ authpc = "idle"
    /\ isAuthenticated(store)
    /\ authpc' = "verify"
    /\ authret' = [type |-> "none"]
    /\ UNCHANGED <<store, cacheVars>>
    /\ UNCHANGED <<batchVars, extractVars, analyzerVars, summaryVars, remoteVars, runVars,
                   callVars>>

\* the verification resolved: the client is returned
VerifyResolved ==
    /\ authpc = "verify"
    /\ authret' = [type |-> "returned", op |-> "getAuthenticatedOctokit",
                   token |-> store.githubToken]
    /\ authpc' = "idle"
    /\ UNCHANGED <<store, cacheVars>>
    /\ UNCHANGED <<batchVars, extractVars, analyzerVars, summaryVars, remoteVars, runVars,
                   callVars>>

\* the verification rejected: clearAuth() on a 401, and the error is thrown
VerifyRejected ==
    /\ authpc = "verify"
    /\ \E status \in VerifyStatuses :
           /\ store' = IF status = 401 THEN clearAuth(store) ELSE store
           /\ authret' = [type |-> "threw", op |-> "getAuthenticatedOctokit",
                          status |-> status,
                          message |-> IF status = 401
                                      THEN "Token expired. Please run with --auth to re-authenticate."
                                      ELSE IF status = 403 THEN "Forbidden"
                                      ELSE "Server Error"]
    /\ authpc' = "idle"
    /\ UNCHANGED cacheVars
    /\ UNCHANGED <<batchVars, extractVars, analyzerVars, summaryVars, remoteVars, runVars,
                   callVars>>

\* logout(): clearAuth()
Logout ==
    /\ authpc = "idle"
    /\ store' = clearAuth(store)
    /\ authret' = [type |-> "returned", op |-> "logout"]
    /\ UNCHANGED <<authpc, cacheVars>>
    /\ UNCHANGED <<batchVars, extractVars, analyzerVars, summaryVars, remoteVars, runVars,
                   callVars>>

NextAuth ==
    \/ AuthenticateCall
    \/ AuthDeviceGranted
    \/ AuthDeviceFailed
    \/ AuthUserResolved
    \/ AuthUserFailed
    \/ OctokitNoToken
    \/ OctokitCall
    \/ VerifyResolved
    \/ VerifyRejected
    \/ Logout

SpecAuth == InitAuth /\ [][NextAuth]_vars

-----------------------------------------------------------------------------
(* Properties of batchCommitsByFeature *)

RECURSIVE ShasOfBatches(_)
ShasOfBatches(bs) ==
    IF bs = <<>> THEN <<>>
    ELSE [k \in 1..Len(Head(bs).commits) |-> Head(bs).commits[k].sha]
         \o ShasOfBatches(Tail(bs))

ShasOf(cs) == [k \in 1..Len(cs) |-> cs[k].sha]

\* the multiset of the elements of a sequence
BagOfSeq(seq) ==
    [x \in {seq[k] : k \in 1..Len(seq)} |-> Cardinality({k \in 1..Len(seq) : seq[k] = x})]

Abs(n) == IF n < 0 THEN -n ELSE n

\* every two neighbours of every returned batch are at most ms milliseconds apart
NeighboursWithin(ms) ==
    \A b \in 1..Len(batches) :
        \A k \in 1..(Len(batches[b].commits) - 1) :
            Abs(ParseDate(batches[b].commits[k].date)
                - ParseDate(batches[b].commits[k + 1].date)) <= ms

\* C2: for a non-empty commit list, the multiset of the commit ids of the
\* returned batches is the multiset of the ids of the input: no commit is lost
\* and none is duplicated.
C2_BatchesPartitionInput ==
    (bpc = "returned" /\ Len(commits) > 0)
        => BagOfSeq(ShasOfBatches(batches)) = BagOfSeq(ShasOf(commits))

\* C2 witness: three commits were returned in more than one batch
C2_Witness ==
    bpc = "returned" /\ Len(commits) = 3 /\ Len(batches) = 2

\* C9 (as claimed): no returned batch holds more than the maxBatchSize that was
\* passed in options (the default when none was passed).
C9_BatchWithinPassedMax ==
    bpc = "returned" =>
        \A b \in 1..Len(batches) :
            Len(batches[b].commits) <=
                (IF "maxBatchSize" \in DOMAIN options
                 THEN options.maxBatchSize ELSE DEFAULT_MAX_BATCH_SIZE)

C11_BatchSpansItsCommits ==
    bpc = "returned" =>
        \A b \in 1..Len(batches) :
            LET cs == batches[b].commits
                ms(k) == cs[k].date * 3600000
            IN /\ Len(cs) > 0
               /\ batches[b].endDate <= batches[b].startDate
               /\ \A k \in 1..(Len(cs) - 1) : ms(k) >= ms(k + 1)
               /\ \A k \in 1..Len(cs) :
                      batches[b].endDate <= ms(k) /\ ms(k) <= batches[b].startDate
               /\ batches[b].startDate = ms(1)
               /\ batches[b].endDate = ms(Len(cs))

\* C11 witness: a returned batch spans an hour: its newest commit is of hour
\* 1 and its oldest of hour 0
C11_Witness ==
    /\ bpc = "returned"
    /\ \E b \in 1..Len(batches) :
           /\ Len(batches[b].commits) = 3
           /\ batches[b].startDate = 3600000
           /\ batches[b].endDate = 0

\* the label detectCategory gives each commit message
HeuristicCategory == [m \in CommitMessages |-> detectCategory(m)]

\* the labels of the commits of a list, in order
HeuristicCategories(cs) == [k \in 1..Len(cs) |-> HeuristicCategory[cs[k].message]]

\* the first label of a list that is not 'other', 'other' when there is none
FirstSpecific(labels) ==
    IF \E k \in 1..Len(labels) : labels[k] # "other"
    THEN labels[CHOOSE k \in 1..Len(labels) :
                    /\ labels[k] # "other"
                    /\ \A j \in 1..(k - 1) : labels[j] = "other"]
    ELSE "other"

\* a step that adds a commit to the open batch leaves the category of the
\* batch alone or takes it from 'other' to a specific label
CategoryOnlyLeavesOther ==
    (/\ bpc = "loop"
     /\ Len(currentBatch.commits) > 0
     /\ Len(currentBatch'.commits) = Len(currentBatch.commits) + 1)
        => \/ currentBatch'.category = currentBatch.category
           \/ currentBatch.category = "other" /\ currentBatch'.category # "other"

\* the category of every returned batch is that of its first commit (newest
\* first) whose heuristic category is not 'other'
CategoryIsFirstSpecific ==
    bpc = "returned" =>
        \A b \in 1..Len(batches) :
            batches[b].category = FirstSpecific(HeuristicCategories(batches[b].commits))

\* C13: while a batch is built its category changes only from 'other' to a
\* specific label, and the category of a batch is the heuristic category of
\* its first commit (newest first) that has a specific one, 'other' when none
\* has; later commits with another specific category do not change it.
C13_CategoryOfFirstSpecificCommit ==
    []CategoryIsFirstSpecific /\ [][CategoryOnlyLeavesOther]_vars

\* C13 witness: a returned batch of an 'other' commit, then a bugfix commit,
\* then a feature commit has the category bugfix
C13_Witness ==
    /\ bpc = "returned"
    /\ \E b \in 1..Len(batches) :
           /\ HeuristicCategories(batches[b].commits) = <<"other", "bugfix", "feature">>
           /\ batches[b].category = "bugfix"

\* C16: a call with a maxBatchSize that is zero or negative fails with an
\* error and returns no batches.
C16_NonPositiveMaxFailsFast ==
    ("maxBatchSize" \in DOMAIN options /\ options.maxBatchSize <= 0)
        => bpc # "returned"

-----------------------------------------------------------------------------
(* Properties of extractEffectiveChanges *)

\* C6: extractEffectiveChanges never propagates a provider failure: whatever
\* the batch and whichever provider call fails, the call is never a rejected
\* operation.
C6_ExtractNeverRejects == xpc # "rejected"

\* the (sha, message, date) entries of a commit list, in order
EntriesOf(cs) ==
    [k \in 1..Len(cs) |-> [sha |-> cs[k].sha, message |-> cs[k].message, date |-> cs[k].date]]

\* what a step taken when the comparison call of a batch of two or more commits failed must do
ComparisonFailureStep ==
       (xpc = "awaitComparison" /\ inflight.status = "rejected" /\ Len(xbatch.commits) >= 2)
        => /\ xpc' = "resolved"
           /\ xret'.type = "messages_only"
           /\ DOMAIN xret' = {"type", "commits"}
           /\ xret'.commits = EntriesOf(xbatch.commits)

\* C7: for a batch of two or more commits whose comparison call failed,
\* extractEffectiveChanges returns a messages_only ChangeSet whose commits
\* list has exactly one (sha, message, date) entry per commit of the batch, in
\* batch order.
C7_ComparisonFailureGivesMessagesOnly == [][ComparisonFailureStep]_vars

C7_Witness ==
    /\ xpc = "resolved"
    /\ xret.type = "messages_only"
    /\ Len(xbatch.commits) = 3
    /\ Len(xret.commits) = 3

-----------------------------------------------------------------------------
(* Properties of analyzeCommitBatches and generatePortfolioSummary *)

\* the analyzer is running, or the extractor it called is
AnalyzerRunning == apc \in {"pass1", "pass1Await", "pass2", "pass2Extract", "pass2Await"}

\* a remote call of the running analyzer has failed and the failure has not
\* been handled yet
FailureDelivered ==
    /\ AnalyzerRunning
    /\ \/ "status" \in DOMAIN inflight /\ inflight.status = "rejected"
       \/ xpc = "rejected"

\* C1: whatever remote call fails, analyzeCommitBatches does not reject: the
\* failure is handled by a step of the analyzer or of the extractor it
\* called and the run goes on, and what analyzeCommitBatches returns holds
\* exactly one Analysis per input batch, in input order.
C1_ReturnsOneAnalysisPerBatch ==
    /\ apc # "rejected"
    /\ FailureDelivered => ENABLED (AnalyzeStep \/ ExtractStep)
    /\ apc = "returned" =>
           /\ Len(analyses) = Len(batches)
           /\ \A k \in 1..Len(batches) : analyses[k].batch = batches[k]

C1_Witness ==
    /\ apc = "returned"
    /\ Len(batches) = 2
    /\ "error" \in DOMAIN analyses[1]
    /\ "detailedError" \in DOMAIN analyses[2]

\* v is a number below n
JsLT(v, n) == "num" \in DOMAIN v /\ v.num < n

LocalDescription(batch) ==
    LET first == FirstLine(batch.commits[1].message)
        more == Len(batch.commits) - 1
    IN IF more = 0 THEN first
       ELSE first \o " (and " \o ToString(more) \o " more commits)"

\* what a step taken when the Pass-1 classification of batch i failed must do
FailedClassificationStep ==
       (/\ apc = "pass1Await"
        /\ inflight.status # "pending"
        /\ \/ inflight.status = "rejected"
           \/ "raw" \in DOMAIN inflight.value.text)
        => /\ Len(analyses') = Len(analyses) + 1
           /\ SubSeq(analyses', 1, Len(analyses)) = analyses
           /\ LET a == analyses'[Len(analyses')]
                  batch == batches[i + 1]
              IN /\ DOMAIN a = {"batch", "category", "description", "importance", "error"}
                 /\ a.batch = batch
                 /\ a.category = batch.category
                 /\ a.description = LocalDescription(batch)
                 /\ a.importance = [num |-> 2]
                 /\ IF inflight.status = "rejected"
                    THEN a.error = inflight.reason
                    ELSE StartsWith(a.error, "Failed to parse JSON response")
           /\ i' = i + 1
           /\ apc' = "pass1"

\* C4: when the Pass-1 classification of a batch fails, the Analysis created
\* for it has the batch's heuristic category, the locally made description
\* (first line of the first commit's message, then the count of further
\* commits if any), importance 2 and the failure reason as error; the run
\* goes on to the next batch.
C4_FailedClassificationGivesFallback == [][FailedClassificationStep]_vars

C4_Witness ==
    /\ Len(analyses) = 2
    /\ "error" \in DOMAIN analyses[1]
    /\ analyses[1].error = "fetch failed"
    /\ Len(analyses[1].batch.commits) = 2
    /\ analyses[1].description = "Fix login bug (and 1 more commits)"

\* the fields of an Analysis that Pass 1 produced
Pass1Fields == {"batch", "category", "description", "importance", "error"}

\* the Pass-1 part of an Analysis
Pass1Part(a) == [f \in DOMAIN a \cap Pass1Fields |-> a[f]]

\* Pass 2 fails for the Analysis it is working on in this step
Pass2Fails ==
    \/ apc = "pass2Extract" /\ xpc = "rejected"
    \/ apc = "pass2Await" /\ inflight.status = "rejected"

\* what a step of Pass 2 must do
Pass2KeepsStep ==
       apc \in {"pass2", "pass2Extract", "pass2Await"}
        => /\ Len(analyses') = Len(analyses)
           /\ \A k \in 1..Len(analyses) : Pass1Part(analyses'[k]) = Pass1Part(analyses[k])
           /\ Pass2Fails =>
                  LET k == importantBatches[i + 1]
                  IN /\ DOMAIN analyses'[k] = DOMAIN analyses[k] \cup {"detailedError"}
                     /\ \A f \in DOMAIN analyses[k] : analyses'[k][f] = analyses[k][f]
                     /\ "detailedAnalysis" \notin DOMAIN analyses'[k]
                     /\ "changes" \notin DOMAIN analyses'[k]
                     /\ \A j \in 1..Len(analyses) : j # k => analyses'[j] = analyses[j]
                     /\ apc' = "pass2"
                     /\ i' = i + 1

\* C5: no step of Pass 2 changes the category, description, importance or
\* error of any Analysis; a step in which Pass 2 fails for an Analysis adds
\* detailedError to it and nothing else (no detailedAnalysis, no changes),
\* and Pass 2 goes on with the next escalated Analysis.
C5_Pass2KeepsPass1Results == [][Pass2KeepsStep]_vars

C5_Witness ==
    /\ apc = "returned"
    /\ Len(analyses) = 2
    /\ "detailedAnalysis" \in DOMAIN analyses[1]
    /\ "detailedError" \in DOMAIN analyses[2]
    /\ "detailedAnalysis" \notin DOMAIN analyses[2]

\* what a step taken when the synthesis request failed must do
SummaryFailureStep ==
       (spc = "await" /\ inflight.status = "rejected")
        => /\ spc' = "rejected"
           /\ sret' = [type |-> "error", message |-> inflight.reason]

\* C8: when the synthesis request failed, generatePortfolioSummary rejects
\* with that failure and returns no summary.
C8_SummaryFailurePropagates == [][SummaryFailureStep]_vars

C8_Witness ==
    /\ spc = "rejected"
    /\ sret.type = "error"
    /\ Len(analyses) = 2

\* C15: every Analysis of the result has an importance that is an integer
\* between 1 and 5, whatever the classification reply holds.
C15_ImportanceIsOneToFive ==
    apc = "returned" =>
        \A k \in 1..Len(analyses) :
            /\ "num" \in DOMAIN analyses[k].importance
            /\ analyses[k].importance.num \in 1..5

\* a remote call is issued in this step
CallIssued ==
    /\ inflight' # inflight
    /\ "status" \in DOMAIN inflight'
    /\ inflight'.status = "pending"

\* what a step of the analyzer that issues a remote call must satisfy
CallsInOrderStep ==
    (AnalyzerRunning /\ CallIssued)
        => /\ inflight = [call |-> "none"]
           /\ IF inflight'.call = "generateText" /\ inflight'.mode = "VERY_FAST"
              THEN /\ apc = "pass1"
                   /\ i < Len(batches)
                   /\ Len(analyses) = i
                   /\ inflight'.prompt.commits =
                          [k \in 1..Len(batches[i + 1].commits) |->
                              formatCommit(batches[i + 1].commits[k])]
              ELSE /\ apc \in {"pass2Extract"}
                   /\ Len(analyses) = Len(batches)
                   /\ inflight'.call \in {"getCommit", "compareCommits", "generateText"}

\* a call is outstanding only while the analyzer awaits it
OneCallAwaited ==
    (AnalyzerRunning /\ inflight # [call |-> "none"])
        => \/ apc \in {"pass1Await", "pass2Await"}
           \/ apc = "pass2Extract" /\ xpc \in {"awaitDetails", "awaitComparison"}

\* C20: within analyzeCommitBatches at most one remote call is outstanding
\* at any time; the Pass-1 requests are issued in batch order, each after the
\* requests of all earlier batches have resolved or failed, and no Pass-2
\* call is issued before every batch has its Pass-1 outcome.
C20_CallsOneAtATimeInOrder ==
    []OneCallAwaited /\ [][CallsInOrderStep]_vars

\* C20 witness: both batches have their Pass-1 outcome and the detailed
\* request of the second escalated Analysis is outstanding
C20_Witness ==
    /\ apc = "pass2Await"
    /\ Len(batches) = 2
    /\ i = 1
    /\ inflight.status = "pending"
    /\ inflight.mode = "HIGH_REASONING"

-----------------------------------------------------------------------------
(* Properties of detectCategory *)

\* the nine labels
CategoryLabels ==
    {"feature", "bugfix", "refactor", "docs", "test", "chore", "style",
     "performance", "other"}

\* the rules in their order: a rule matches a lower-cased message that starts
\* with one of its prefixes or holds one of its substrings
CategoryRules ==
    << [label |-> "feature", prefixes |-> {"feat"}, parts |-> {"add ", "implement", "new "}],
       [label |-> "bugfix", prefixes |-> {"fix"}, parts |-> {"bug", "patch", "hotfix"}],
       [label |-> "refactor", prefixes |-> {"refactor"}, parts |-> {"refactor", "restructure"}],
       [label |-> "docs", prefixes |-> {"doc"}, parts |-> {"readme", "comment"}],
       [label |-> "test", prefixes |-> {"test"}, parts |-> {"test", "spec"}],
       [label |-> "chore", prefixes |-> {"chore", "build"}, parts |-> {"deps", "ci"}],
       [label |-> "style", prefixes |-> {"style"}, parts |-> {"format", "lint"}],
       [label |-> "performance", prefixes |-> {"perf"}, parts |-> {"optim", "performance"}] >>

RuleMatches(rule, lower) ==
    \/ \E pre \in rule.prefixes : StartsWith(lower, pre)
    \/ \E part \in rule.parts : Includes(lower, part)

\* the label of the first rule that matches, 'other' when none does
FirstMatchingRule(message) ==
    LET lower == ToLowerCase(message)
        hits == {k \in 1..Len(CategoryRules) : RuleMatches(CategoryRules[k], lower)}
    IN IF hits = {} THEN "other"
       ELSE CategoryRules[CHOOSE k \in hits : \A j \in hits : k <= j].label

\* C14: detectCategory returns for every message, always the same label for
\* the same message, one of the nine labels: that of the first rule that
\* matches in the order feature, bugfix, refactor, docs, test, chore, style,
\* performance, and 'other' when no rule matches.
C14_FirstMatchingRuleDecides ==
    fpc = "detectCategory" =>
        /\ detectCategory(farg) \in CategoryLabels
        /\ \A k \in 1..Len(fret) :
               /\ fret[k] \in CategoryLabels
               /\ fret[k] = FirstMatchingRule(farg)
               /\ fret[k] = fret[1]

\* C14 witness: a message that both the feature rule and the bugfix rule
\* match was given the label feature, twice
C14_Witness ==
    /\ fpc = "detectCategory"
    /\ farg = "add bugs"
    /\ fret = <<"feature", "feature">>

-----------------------------------------------------------------------------
(* Properties of the detailed pass and of getAnalysisStats *)

\* the Analyses of the result that have the property
AnalysesWith(field) == {k \in 1..Len(analyses) : field \in DOMAIN analyses[k]}

\* the escalated Analyses of the result
Escalated ==
    {k \in 1..Len(analyses) :
        "num" \in DOMAIN analyses[k].importance /\ analyses[k].importance.num >= 3}

\* after a run only escalated Analyses have detailedAnalysis or detailedError,
\* none has both, and every escalated one has one of them if Pass 2 ran
DetailOnlyOnEscalated ==
    apc = "returned" =>
        /\ AnalysesWith("detailedAnalysis") \subseteq Escalated
        /\ AnalysesWith("detailedError") \subseteq Escalated
        /\ AnalysesWith("detailedAnalysis") \cap AnalysesWith("detailedError") = {}
        /\ DetailedWanted(aopts) =>
               Escalated = AnalysesWith("detailedAnalysis") \cup AnalysesWith("detailedError")

\* C12: after a run the Analyses with detailedAnalysis are the escalated ones
\* whose Pass 2 succeeded, those with detailedError the escalated ones whose
\* Pass 2 failed, and detailedCount of getAnalysisStats is the number of
\* Analyses with detailedAnalysis.
C12_DetailedCountCountsSucceeded ==
    /\ DetailOnlyOnEscalated
    /\ apc = "returned" =>
           /\ getAnalysisStats(analyses).type = "returned"
           /\ getAnalysisStats(analyses).value.detailedCount =
                  Cardinality(AnalysesWith("detailedAnalysis"))

\* the Analyses of the argument whose category is the label
Bearing(label) ==
    {k \in 1..Len(farg) : "category" \in DOMAIN farg[k] /\ farg[k].category = label}

\* the eight specific labels
SpecificLabels ==
    {"feature", "bugfix", "refactor", "docs", "test", "chore", "style", "performance"}

\* the sum of a function of numbers
RECURSIVE SumOfCounts(_, _)
SumOfCounts(f, keys) ==
    IF keys = {} THEN 0
    ELSE LET c == CHOOSE x \in keys : TRUE IN f[c] + SumOfCounts(f, keys \ {c})

\* C18: byCategory of getAnalysisStats maps each known label to the number of
\* Analyses bearing it, counts an Analysis with a missing or unlisted
\* category under 'other', and its counts sum to totalBatches.
C18_ByCategoryCountsEveryAnalysis ==
    fpc = "getAnalysisStats" =>
        \A n \in 1..Len(fret) :
            /\ fret[n].type = "returned"
            /\ DOMAIN fret[n].value.byCategory = SpecificLabels \cup {"other"}
            /\ \A c \in SpecificLabels :
                   fret[n].value.byCategory[c] = Cardinality(Bearing(c))
            /\ fret[n].value.byCategory["other"] =
                   Cardinality({k \in 1..Len(farg) :
                                   \A c \in SpecificLabels : k \notin Bearing(c)})
            /\ fret[n].value.totalBatches = Len(farg)
            /\ SumOfCounts(fret[n].value.byCategory, DOMAIN fret[n].value.byCategory)
                   = fret[n].value.totalBatches

\* the counts are right for the Analysis sequences in which no category is
\* the name of an inherited property
ByCategoryCountsOwnKeys ==
    (\A k \in 1..Len(farg) : farg[k].category # "constructor")
        => C18_ByCategoryCountsEveryAnalysis

\* every call on the same Analyses gives what the first one gave
StatsRepeat ==
    fpc = "getAnalysisStats" => \A n \in 1..Len(fret) : fret[n] = fret[1]

\* a call leaves the Analyses as they are
StatsReadOnly == fpc = "getAnalysisStats" => farg' = farg

-----------------------------------------------------------------------------
(* Properties of the usage accounting of a run *)

\* the sum of a field over a sequence of usage records
RECURSIVE UsageSum(_, _)
UsageSum(us, field) ==
    IF us = <<>> THEN 0 ELSE Head(us)[field] + UsageSum(Tail(us), field)

\* the total a run reports is the usage of the completions delivered to it
ReportIsUsageOfRun ==
    rpc = "reported" =>
        /\ rret.totalUsage.inputTokens = UsageSum(served, "promptTokens")
        /\ rret.totalUsage.outputTokens = UsageSum(served, "completionTokens")
        /\ rret.totalUsage.totalTokens =
               UsageSum(served, "promptTokens") + UsageSum(served, "completionTokens")
        /\ rret.totalUsage.callCount = Len(served)

\* the first step of a run empties the tracker; every later step leaves what
\* was tracked and at most adds to it
UsageResetThenGrows ==
    /\ rpc = "entered" =>
           usageTracker' = [totalInputTokens |-> 0, totalOutputTokens |-> 0, calls |-> <<>>]
    /\ rpc = "running" =>
           /\ usageTracker'.totalInputTokens >= usageTracker.totalInputTokens
           /\ usageTracker'.totalOutputTokens >= usageTracker.totalOutputTokens
           /\ Len(usageTracker'.calls) >= Len(usageTracker.calls)
           /\ SubSeq(usageTracker'.calls, 1, Len(usageTracker.calls)) = usageTracker.calls

\* C17: the usage tracker is reset when a run of analyzeRepository begins and
\* only grows during the run, and the total reported at the end of the run
\* is the sum of the usage of every completion of that run (Pass 1, Pass 2
\* and the synthesis), with nothing of an earlier run in it.
C17_UsageOfThisRunOnly ==
    []ReportIsUsageOfRun /\ [][UsageResetThenGrows]_vars

\* C17 witness: a run of two batches reported the usage of five completions:
\* two classifications, two detailed analyses and the summary
C17_Witness ==
    /\ rpc = "reported"
    /\ Len(batches) = 2
    /\ Len(served) = 5
    /\ rret.totalUsage.callCount = 5
    /\ rret.totalUsage.totalTokens = 50

-----------------------------------------------------------------------------
(* Properties of the escalation to Pass 2 *)

\* the importance of the Analysis is a number that is 3 or more
AtLeastThree(a) == "num" \in DOMAIN a.importance /\ a.importance.num >= 3

\* the properties Pass 2 adds to an Analysis
Pass2Fields == {"detailedAnalysis", "changes", "detailedError"}

\* an Analysis that is not at 3 or above has nothing of Pass 2, and the
\* Analyses Pass 2 walks are those at 3 or above, each once, in input order
Pass2OnlyFromThree ==
    /\ \A k \in 1..Len(analyses) :
           ~AtLeastThree(analyses[k]) => DOMAIN analyses[k] \cap Pass2Fields = {}
    /\ apc \in {"pass2", "pass2Extract", "pass2Await"} =>
           /\ {importantBatches[n] : n \in 1..Len(importantBatches)}
                  = {k \in 1..Len(analyses) : AtLeastThree(analyses[k])}
           /\ \A n \in 1..(Len(importantBatches) - 1) :
                  importantBatches[n] < importantBatches[n + 1]

\* a step that calls the change extraction, issues one of its provider calls
\* or issues the detailed request does so for an Analysis at 3 or above
Pass2CallsFromThreeStep ==
    /\ (xpc = "idle" /\ xpc' = "called") =>
           \E k \in 1..Len(analyses) :
               AtLeastThree(analyses[k]) /\ xbatch' = analyses[k].batch
    /\ (CallIssued /\ inflight'.call \in {"getCommit", "compareCommits"}) =>
           \E k \in 1..Len(analyses) :
               AtLeastThree(analyses[k]) /\ xbatch = analyses[k].batch
    /\ (CallIssued /\ inflight'.call = "generateText"
           /\ inflight'.mode = "HIGH_REASONING") =>
           /\ AtLeastThree(analyses[importantBatches[i + 1]])
           /\ inflight'.prompt.commits =
                  LET cs == analyses[importantBatches[i + 1]].batch.commits
                  IN [k \in 1..Len(cs) |-> formatCommit(cs[k])]

\* C21: Pass 2 works on exactly the Analyses whose Pass-1 importance is >= 3,
\* a fixed constant: no change-extraction call and no detailed request is made
\* for an Analysis that is not at 3 or above, and such an Analysis never has
\* detailedAnalysis, changes or detailedError.
C21_Pass2OnlyFromThree ==
    []Pass2OnlyFromThree /\ [][Pass2CallsFromThreeStep]_vars

\* C21 witness: in a result of two Analyses the one of importance 1 has
\* nothing of Pass 2 and the one of importance 7 has its detailed text
C21_Witness ==
    /\ apc = "returned"
    /\ Len(analyses) = 2
    /\ analyses[1].importance = [num |-> 1]
    /\ DOMAIN analyses[1] \cap Pass2Fields = {}
    /\ analyses[2].importance = [num |-> 7]
    /\ "detailedAnalysis" \in DOMAIN analyses[2]
    /\ "changes" \in DOMAIN analyses[2]

-----------------------------------------------------------------------------
(* Properties of the independence of the batches *)

\* the index in analyses of the batch the analyzer is working on, 0 when it
\* is working on none
BatchAtWork ==
    IF apc \in {"pass1", "pass1Await"} /\ i < Len(batches) THEN i + 1
    ELSE IF apc \in {"pass2", "pass2Extract", "pass2Await"} /\ i < Len(importantBatches)
         THEN importantBatches[i + 1]
         ELSE 0

\* the Analysis Pass 1 makes of a batch and of the outcome of the batch's own
\* classification request
OwnPass1(batch, outcome) ==
    IF outcome.ok
    THEN Pass1Analysis(batch, outcome.data, outcome.usage)
    ELSE FallbackAnalysis(batch, outcome.message)

\* the Analysis Pass 2 makes of an Analysis, of the changes of its own batch
\* and of the outcome of its own detailed request
OwnPass2(analysis, call, chg) ==
    IF call.status = "fulfilled"
    THEN DetailedAnalysis(analysis, GenerateResult(call), chg)
    ELSE FailedDetail(analysis, call.reason)

\* the commits of a batch as a prompt lists them
PromptCommits(batch) ==
    [k \in 1..Len(batch.commits) |-> formatCommit(batch.commits[k])]

\* the settled call is the provider call extractEffectiveChanges makes for the batch
OwnProviderCall(call, batch) ==
    \/ /\ call.call = "getCommit"
       /\ Len(batch.commits) = 1
       /\ call.ref = batch.commits[1].sha
    \/ /\ call.call = "compareCommits"
       /\ Len(batch.commits) > 1
       /\ call.base = batch.commits[Len(batch.commits)].sha
       /\ call.head = batch.commits[1].sha

\* what every step of a run must satisfy: it leaves the Analysis of every
\* batch but the one at work as it is, and what it writes for the batch at
\* work it makes of that batch and of the outcome of that batch's own calls
IndependenceStep ==
    /\ Len(analyses') \in {Len(analyses), Len(analyses) + 1}
    /\ \A k \in 1..Len(analyses) : k # BatchAtWork => analyses'[k] = analyses[k]
    /\ Len(analyses') = Len(analyses) + 1 =>
           /\ apc = "pass1Await"
           /\ BatchAtWork = Len(analyses')
           /\ inflight.prompt.commits = PromptCommits(batches[BatchAtWork])
           /\ analyses'[BatchAtWork] =
                  OwnPass1(batches[BatchAtWork], GenerateJSONOutcome(inflight))
    /\ (BatchAtWork \in 1..Len(analyses)
          /\ analyses'[BatchAtWork] # analyses[BatchAtWork]) =>
           \/ /\ apc = "pass2Extract"
              /\ xpc = "rejected"
              /\ xbatch = analyses[BatchAtWork].batch
              /\ analyses'[BatchAtWork] = FailedDetail(analyses[BatchAtWork], xret.message)
           \/ /\ apc = "pass2Await"
              /\ inflight.prompt.commits = PromptCommits(analyses[BatchAtWork].batch)
              /\ analyses'[BatchAtWork] = OwnPass2(analyses[BatchAtWork], inflight, changes)
    /\ (changes' # changes /\ changes'.type # "none") =>
           /\ xbatch = analyses[BatchAtWork].batch
           /\ changes' = xret
    /\ (xret' # xret /\ xret'.type # "none" /\ apc = "pass2Extract") =>
           /\ xbatch = analyses[BatchAtWork].batch
           /\ OwnProviderCall(inflight, xbatch)
    /\ (xbatch' # xbatch /\ xpc' = "called") =>
           xbatch' = analyses[BatchAtWork].batch

-----------------------------------------------------------------------------
(* Properties of the walk of batchCommitsByFeature *)

\* the batch size and the window (milliseconds) the call works with: the
\* option, and the default when the option is absent or 0
SizeOfCall ==
    IF "maxBatchSize" \in DOMAIN options /\ options.maxBatchSize # 0
    THEN options.maxBatchSize ELSE 10

WindowOfCall ==
    (IF "timeWindowHours" \in DOMAIN options /\ options.timeWindowHours # 0
     THEN options.timeWindowHours ELSE 4) * 3600000

\* what the step of the walk that visits a commit must do
WalkDecisionStep ==
    (bpc = "loop" /\ walk' = walk + 1) =>
        LET commit == sortedCommits[walk + 1]
            open == currentBatch.commits
            startsNew ==
                \/ Len(open) = 0
                \/ Len(open) >= SizeOfCall
                \/ currentBatch.startDate - commit.date * 3600000 > WindowOfCall
        IN IF startsNew
           THEN /\ currentBatch'.commits = <<commit>>
                /\ currentBatch'.startDate = commit.date * 3600000
                /\ batches' = IF Len(open) = 0 THEN batches
                              ELSE Append(batches, [currentBatch EXCEPT !.files = <<>>])
           ELSE /\ currentBatch'.commits = Append(open, commit)
                /\ currentBatch'.startDate = currentBatch.startDate
                /\ currentBatch.startDate = open[1].date * 3600000
                /\ batches' = batches

\* every returned batch spans at most the window
BatchSpansAtMostWindow ==
    bpc = "returned" =>
        \A b \in 1..Len(batches) :
            batches[b].startDate - batches[b].endDate <= WindowOfCall

-----------------------------------------------------------------------------
(* Properties of the variants of a ChangeSet *)

\* the properties of each variant
VariantFields ==
    [single |-> {"type", "commit", "files", "stats"},
     range |-> {"type", "startSha", "endSha", "commitCount", "files", "stats"},
     messages_only |-> {"type", "commits"}]

\* what extractEffectiveChanges returned is null for a batch without commits
\* and otherwise carries the one variant the size of the batch allows, with
\* the properties of that variant and no others
OneVariantBySize ==
    xpc = "resolved" =>
        LET n == Len(xbatch.commits) IN
        /\ n = 0 => xret = [type |-> "null"]
        /\ n = 1 => xret.type = "single"
        /\ n >= 2 => xret.type \in {"range", "messages_only"}
        /\ n >= 1 => DOMAIN xret = VariantFields[xret.type]
        /\ (n >= 1 /\ xret.type = "range") =>
               /\ xret.commitCount = n
               /\ xret.startSha = xbatch.commits[n].sha
               /\ xret.endSha = xbatch.commits[1].sha

\* what the steps of a call must do: the comparison is asked for from the
\* oldest commit to the newest of a batch of two or more, its outcome decides
\* between range and messages_only, and no call is made for an empty batch
VariantByOutcomeStep ==
    /\ (xpc = "called" /\ Len(xbatch.commits) = 0) => inflight' = inflight
    /\ (xpc = "called" /\ CallIssued) =>
           IF Len(xbatch.commits) = 1
           THEN /\ inflight'.call = "getCommit"
                /\ inflight'.ref = xbatch.commits[1].sha
           ELSE /\ inflight'.call = "compareCommits"
                /\ inflight'.base = xbatch.commits[Len(xbatch.commits)].sha
                /\ inflight'.head = xbatch.commits[1].sha
    /\ (xpc = "awaitComparison" /\ inflight.status = "fulfilled") =>
           xpc' = "resolved" /\ xret'.type = "range"
    /\ (xpc = "awaitComparison" /\ inflight.status = "rejected") =>
           xpc' = "resolved" /\ xret'.type = "messages_only"
    /\ (xpc = "awaitDetails" /\ inflight.status = "fulfilled") =>
           xpc' = "resolved" /\ xret'.type = "single"

\* C24: the ChangeSet extractEffectiveChanges returns carries exactly one
\* variant, fixed by the size of the batch and the outcome of the comparison:
\* null for no commits, single for one commit, and for two or more commits
\* range when the comparison succeeds and messages_only when it fails; the
\* comparison is requested with base = sha of the last (oldest) commit and
\* head = sha of the first (newest) one, and a range records the commit count
\* of the batch.
C24_OneVariantBySizeAndOutcome ==
    []OneVariantBySize /\ [][VariantByOutcomeStep]_vars

\* C24 witness: a range over a batch of three commits was returned
C24_Witness ==
    /\ xpc = "resolved"
    /\ Len(xbatch.commits) = 3
    /\ xret.type = "range"
    /\ xret.commitCount = 3
    /\ xret.startSha = xbatch.commits[3].sha

-----------------------------------------------------------------------------
(* Properties of the input of the heuristic *)

\* the label detectCategory gives the first line of each commit message,
\* which is itself a message with that first line
FirstLineCategory == [m \in CommitMessages |-> detectCategory(FirstLine(m))]

\* C25: the heuristic category the batcher gives a commit is computed from
\* the first line of its message only, so that commits whose messages have
\* the same first line get the same category whatever the other lines hold:
\* the category of every returned batch is the first specific one among the
\* labels of the first lines of its commits.
C25_CategoryFromFirstLineOnly ==
    bpc = "returned" =>
        \A b \in 1..Len(batches) :
            batches[b].category =
                FirstSpecific([k \in 1..Len(batches[b].commits) |->
                                  FirstLineCategory[batches[b].commits[k].message]])

-----------------------------------------------------------------------------
(* Properties of the Analyses of failed classifications *)

\* the Analyses whose Pass-1 classification failed
FailedClassifications == {k \in 1..Len(analyses) : "error" \in DOMAIN analyses[k]}

\* an Analysis with error has the importance 2, is not among the Analyses
\* Pass 2 walks, and has no detailedAnalysis, detailedError or changes
FailedStaysOutOfPass2 ==
    \A k \in FailedClassifications :
        /\ analyses[k].importance = [num |-> 2]
        /\ \A n \in 1..Len(importantBatches) : importantBatches[n] # k
        /\ DOMAIN analyses[k] \cap {"detailedAnalysis", "detailedError", "changes"} = {}

\* C26: a batch whose Pass-1 classification failed is never escalated: its
\* fallback importance 2 is below the threshold 3, so at no time, and in no
\* result of analyzeCommitBatches, an Analysis has both error and any of
\* detailedAnalysis, detailedError or changes.
C26_FailedClassificationNeverEscalated == FailedStaysOutOfPass2

\* C26 witness: Pass 2 ran and failed for the first batch, and the second
\* batch, whose classification failed, was left as Pass 1 made it
C26_Witness ==
    /\ apc = "returned"
    /\ Len(analyses) = 2
    /\ "detailedError" \in DOMAIN analyses[1]
    /\ DOMAIN analyses[2] = {"batch", "category", "description", "importance", "error"}

-----------------------------------------------------------------------------
(* Properties of the marking of an analyzed repository *)

\* the repository of the run is marked analyzed, and an analysis is saved for it
RunRepoMarked == "o/app" \in DOMAIN cacheStore.analyzedRepos
RunRepoSaved == "o/app" \in DOMAIN cacheStore.repoAnalysis

\* analyze-all, listing the repository of the run, selects it
SelectedByAnalyzeAll ==
    UnanalyzedRepos(<<[owner |-> "o", name |-> "app"]>>, cacheStore)
        = <<[owner |-> "o", name |-> "app"]>>

\* the repository is marked or saved only once both passes and the synthesis
\* are over; a run that failed at the synthesis or before, and a run that
\* returned early, have left it unmarked and unsaved
MarkedOnlyAfterSynthesis ==
    /\ (RunRepoMarked \/ RunRepoSaved) =>
           /\ apc = "returned"
           /\ Len(analyses) = Len(batches)
           /\ spc = "resolved"
           /\ RunRepoMarked /\ RunRepoSaved
    /\ (rpc = "rejected" /\ spc # "resolved") =>
           ~RunRepoMarked /\ ~RunRepoSaved /\ SelectedByAnalyzeAll
    /\ rpc = "returnedEarly" =>
           /\ Len(commits) = 0
           /\ rret.stats.totalCommits = 0
           /\ ~RunRepoMarked /\ ~RunRepoSaved /\ SelectedByAnalyzeAll
    /\ rpc = "entered" => SelectedByAnalyzeAll

\* a step that marks the repository or saves its analysis is taken when the
\* synthesis has resolved, and a run with no commits ends in its first step
MarkingStep ==
    /\ (cacheStore'.analyzedRepos # cacheStore.analyzedRepos
          \/ cacheStore'.repoAnalysis # cacheStore.repoAnalysis) =>
           /\ apc = "returned"
           /\ spc = "resolved"
           /\ sret.type = "summary"
    /\ (rpc = "entered" /\ Len(commits) = 0) => rpc' \in {"returnedEarly", "rejected"}

\* C27: analyzeRepository marks the repository analyzed and saves its
\* analysis only after Pass 1, Pass 2 and the synthesis have all completed: if
\* the synthesis or an earlier step fails the repository is left unmarked and
\* nothing is saved for it, and a repository with no fetched commits is
\* returned early without being marked, so that analyze-all selects it again.
C27_MarkedOnlyAfterSynthesis ==
    []MarkedOnlyAfterSynthesis /\ [][MarkingStep]_vars

\* C27 witness: two batches were analyzed, the synthesis failed and the run
\* rejected with the repository unmarked
C27_Witness ==
    /\ rpc = "rejected"
    /\ spc = "rejected"
    /\ Len(analyses) = 2
    /\ "o/app" \notin DOMAIN cacheStore.analyzedRepos
    /\ "o/app" \in DOMAIN cacheStore.commits

-----------------------------------------------------------------------------
(* Properties of the order of the batches *)

\* the commits of the batches, one batch after the other
RECURSIVE CommitsOfBatches(_)
CommitsOfBatches(bs) ==
    IF bs = <<>> THEN <<>> ELSE Head(bs).commits \o CommitsOfBatches(Tail(bs))

\* the batches, read one after the other, are the commits of the input, each
\* once, from the newest timestamp down, and no commit of a batch is older
\* than a commit of the batch after it
BatchesNewestFirst ==
    (bpc = "returned" /\ Len(commits) > 0) =>
        LET all == CommitsOfBatches(batches) IN
        /\ Len(all) = Len(commits)
        /\ \A c \in {commits[k] : k \in 1..Len(commits)} :
               Cardinality({k \in 1..Len(all) : all[k] = c})
                   = Cardinality({k \in 1..Len(commits) : commits[k] = c})
        /\ \A k \in 1..(Len(all) - 1) : all[k].date >= all[k + 1].date
        /\ \A b \in 1..(Len(batches) - 1) :
               \A x \in 1..Len(batches[b].commits) :
                   \A y \in 1..Len(batches[b + 1].commits) :
                       batches[b].commits[x].date >= batches[b + 1].commits[y].date

\* no step of the call changes the list that was passed in
InputUntouched == commits' = commits

\* C28: the batches batchCommitsByFeature returns are in newest-first order
\* and their concatenation is the input sorted by descending authorship
\* timestamp: every commit of batch i is no older than every commit of batch
\* i+1, and the input list itself is left unmodified.
C28_BatchesNewestFirstInputUntouched ==
    []BatchesNewestFirst /\ [][InputUntouched]_vars

\* C28 witness: a list passed oldest commit first came back in two batches,
\* the newest commit in the first one, and is still in the order it was passed in
C28_Witness ==
    /\ bpc = "returned"
    /\ Len(commits) = 3
    /\ commits[1].date = 0 /\ commits[2].date = 1 /\ commits[3].date = 6
    /\ Len(batches) = 2
    /\ batches[1].commits = <<commits[3]>>
    /\ batches[2].commits = <<commits[2], commits[1]>>

-----------------------------------------------------------------------------
(* Properties of clearRepoCache *)

\* the analysis entries of a cache that were cached for the repository: their
\* key is 'owner/repo:' followed by the range
AnalysesOfRepo(cache, owner, repo) ==
    {a \in DOMAIN cache.analysis :
        LET mark == owner \o "/" \o repo \o ":"
        IN Len(a) >= Len(mark) /\ SubSeq(a, 1, Len(mark)) = mark}

\* the step is a call of clearRepoCache
ClearCalled == fret' # fret /\ farg'.fn = "clearRepoCache"

\* a call of clearRepoCache leaves no cached commits and no cached analysis
\* of the repository it is called for
ClearDeletesOwnEntries ==
    ClearCalled =>
        /\ (farg'.owner \o "/" \o farg'.repo) \notin DOMAIN cacheStore'.commits
        /\ AnalysesOfRepo(cacheStore', farg'.owner, farg'.repo) = {}

\* a call of clearRepoCache leaves the cached commits and analyses of the
\* repository other as they were
ClearKeeps(other) ==
    LET key == other.owner \o "/" \o other.repo IN
    /\ key \in DOMAIN cacheStore.commits =>
           key \in DOMAIN cacheStore'.commits
           /\ cacheStore'.commits[key] = cacheStore.commits[key]
    /\ \A a \in AnalysesOfRepo(cacheStore, other.owner, other.repo) :
           a \in DOMAIN cacheStore'.analysis
           /\ cacheStore'.analysis[a] = cacheStore.analysis[a]

\* what a call of clearRepoCache must do
ClearOnlyOwnStep ==
    /\ ClearDeletesOwnEntries
    /\ ClearCalled =>
           \A other \in {[owner |-> "o", repo |-> "app"], [owner |-> "o", repo |-> "app2"],
                         [owner |-> "p", repo |-> "lib"]} :
               (other.owner # farg'.owner \/ other.repo # farg'.repo) => ClearKeeps(other)

\* C29: clearRepoCache(owner, repo) deletes the cached commits and every
\* cached analysis of that repository and leaves the cache entries of every
\* other repository unchanged, also those of a repository whose 'owner/name'
\* key has the key of the cleared one as a prefix (clearing o/app does not
\* delete the analyses of o/app2).
C29_ClearTouchesOnlyItsRepo == [][ClearOnlyOwnStep]_vars

\* a call of clearRepoCache deletes the entries of its repository and keeps
\* those of every repository whose key does not begin with the key of the
\* cleared one
ClearKeepsUnprefixedStep ==
    /\ ClearDeletesOwnEntries
    /\ ClearCalled =>
           /\ cacheStore'.analyzedRepos = cacheStore.analyzedRepos
           /\ cacheStore'.repoAnalysis = cacheStore.repoAnalysis
           /\ \A other \in {[owner |-> "o", repo |-> "app"], [owner |-> "o", repo |-> "app2"],
                            [owner |-> "p", repo |-> "lib"]} :
                  ~StartsWith(other.owner \o "/" \o other.repo,
                              farg'.owner \o "/" \o farg'.repo)
                      => ClearKeeps(other)

ClearKeepsUnprefixed == [][ClearKeepsUnprefixedStep]_vars

-----------------------------------------------------------------------------
(* Properties of the stored token and user *)

\* a stored token comes with a stored user
TokenImpliesUser ==
    ("githubToken" \in DOMAIN store /\ store.githubToken # "")
        => "githubUser" \in DOMAIN store

\* what the step that ends a failed token verification must do: a 401 clears
\* token and user, any other error leaves both as they were
VerificationFailureStep ==
    (authpc = "verify" /\ authret'.type = "threw") =>
        IF authret'.status = 401
        THEN "githubToken" \notin DOMAIN store' /\ "githubUser" \notin DOMAIN store'
        ELSE store' = store

\* C30: in every state reachable through authenticate,
\* getAuthenticatedOctokit and logout, also when one of them fails partway, a
\* stored token implies a stored user record; a 401 on the verification of the
\* token clears both token and user, and any other verification error leaves
\* both unchanged.
C30_TokenImpliesUser ==
    []TokenImpliesUser /\ [][VerificationFailureStep]_vars

\* the outcome of a failed verification alone
VerificationClearsOrKeeps == [][VerificationFailureStep]_vars

====
